---- MODULE Spec2Model ----
(***************************************************************************)
(* A model of omnillm's request resilience layer: the error classifier     *)
(* (errors.go), the per-provider circuit breaker (circuitbreaker.go), the  *)
(* primary -> fallback provider chain (fallback.go), the response cache    *)
(* (cache.go), the token validator and the client that puts them in front  *)
(* of the provider (client.go).                                            *)
(*                                                                         *)
(* Time is a clock `now` that only moves forward (time.Now / time.Since    *)
(* read Go's monotonic clock).  One tick of the clock stands for ten       *)
(* seconds, so the 30 s default Timeout is three ticks.                    *)
(*                                                                         *)
(* FailureRateThreshold is a float64 in the code.  It is modelled as the   *)
(* fraction num/den it was written as, and the comparison                  *)
(*   float64(totalFailures)/float64(totalRequests) >= threshold            *)
(* as totalFailures * den >= num * totalRequests.  For the small counters  *)
(* and denominators used here the two agree: float division is correctly   *)
(* rounded and monotone, and two distinct fractions with denominators      *)
(* below 2^26 never round to the same float64.                             *)
(*                                                                         *)
(* Eleven specifications share the variables:                              *)
(*   SpecCB  one breaker driven through its methods, one call at a time    *)
(*   SpecCC  one breaker called from two goroutines, lock steps shown      *)
(*   SpecFB  the FallbackProvider serving CreateChatCompletion requests,   *)
(*           the clock free to move during a request                       *)
(*   SpecST  the FallbackProvider serving both kinds of request, with      *)
(*           cancellation and the reading of the returned stream           *)
(*   SpecEQ  requests served as a whole by the two chains as functions     *)
(*   SpecCA  a CacheManager over a key-value store that can fail           *)
(*   SpecCL  a ChatClient with token validation and a response cache       *)
(*   SpecKEY BuildCacheKey applied to pairs of requests, ShouldCache       *)
(*   SpecERR ClassifyError applied to errors                               *)
(*   SpecFX  the FallbackProvider with a Timeout left to its default, or   *)
(*           with a fallback that carries the primary's name               *)
(*   SpecLV  the FallbackProvider with providers that recover, under       *)
(*           fairness: time advances, requests arrive and go on            *)
(***************************************************************************)
EXTENDS Integers, Sequences, FiniteSets, TLC

(***************************************************************************)
(* Bounds of the model                                                     *)
(***************************************************************************)
\* the clock stops at MaxTime
MaxTime == 3
\* a stand-alone breaker takes at most MaxRecords RecordSuccess/RecordFailure calls
MaxRecords == 10
\* the orchestrator serves at most MaxRequests requests
MaxRequests == 3
\* a caller makes at most MaxRecv Recv calls on a stream
MaxRecv == 2
\* the orchestrator that also streams serves at most MaxCalls requests
MaxCalls == 2
\* at most MaxServed requests are served as a whole
MaxServed == 2
\* the goroutines sharing a breaker make at most MaxConcurrentCalls calls
MaxConcurrentCalls == 4
\* the CacheManager takes at most MaxOps calls
MaxOps == 3
\* the ChatClient serves at most MaxClientCalls requests
MaxClientCalls == 2
\* AllowRequest calls made on the stand-alone breaker while it stays half-open
\* with no record in between
MaxAdmitted == 3
\* once the providers have recovered, at most MaxArrivals requests arrive between
\* two ticks of the clock
MaxArrivals == 2

(***************************************************************************)
(* circuitbreaker.go: states, configuration, defaults                      *)
(***************************************************************************)
CircuitClosed == "closed"
CircuitOpen == "open"
CircuitHalfOpen == "half-open"

\* the zero time.Time of a breaker that never failed: long before any clock value
ZeroTime == -100

DefaultFailureThreshold == 5
DefaultSuccessThreshold == 2
\* 30 * time.Second, in ticks of ten seconds
DefaultTimeout == 3
DefaultMinimumRequests == 10
\* 0.5
DefaultFailureRateThreshold == [num |-> 1, den |-> 2]

\* a float64 threshold written as a fraction; 0 is [num |-> 0, den |-> 1]
Rate(n, d) == [num |-> n, den |-> d]

CircuitBreakerConfig(ft, st, to, rate, mr) ==
    [FailureThreshold |-> ft, SuccessThreshold |-> st, Timeout |-> to,
     FailureRateThreshold |-> rate, MinimumRequests |-> mr]

DefaultCircuitBreakerConfig ==
    CircuitBreakerConfig(DefaultFailureThreshold, DefaultSuccessThreshold,
                         DefaultTimeout, DefaultFailureRateThreshold,
                         DefaultMinimumRequests)

\* time.Since(t) read at clock value t0
Since(t, t0) == t0 - t

\* NewCircuitBreaker: zero fields of the config take their defaults
NewCircuitBreaker(config, t0) ==
    [config |->
        [FailureThreshold |->
            IF config.FailureThreshold = 0 THEN DefaultFailureThreshold
            ELSE config.FailureThreshold,
         SuccessThreshold |->
            IF config.SuccessThreshold = 0 THEN DefaultSuccessThreshold
            ELSE config.SuccessThreshold,
         Timeout |->
            IF config.Timeout = 0 THEN DefaultTimeout ELSE config.Timeout,
         FailureRateThreshold |->
            IF config.FailureRateThreshold.num = 0 THEN DefaultFailureRateThreshold
            ELSE config.FailureRateThreshold,
         MinimumRequests |->
            IF config.MinimumRequests = 0 THEN DefaultMinimumRequests
            ELSE config.MinimumRequests],
     state |-> CircuitClosed,
     consecutiveFailures |-> 0,
     consecutiveSuccesses |-> 0,
     totalRequests |-> 0,
     totalFailures |-> 0,
     lastFailure |-> ZeroTime,
     lastStateChange |-> t0]

\* a transitionTo that lets the success streak stand when the breaker half-opens
\* or opens
transitionTo_KeepSuccesses(b, newState, t0) ==
    IF b.state = newState THEN b
    ELSE IF newState = CircuitClosed
         THEN [b EXCEPT !.state = newState, !.lastStateChange = t0,
                        !.consecutiveFailures = 0, !.consecutiveSuccesses = 0,
                        !.totalRequests = 0, !.totalFailures = 0]
         ELSE [b EXCEPT !.state = newState, !.lastStateChange = t0]

\* a transitionTo that zeroes every counter on every state change
transitionTo_ZeroAll(b, newState, t0) ==
    IF b.state = newState THEN b
    ELSE [b EXCEPT !.state = newState, !.lastStateChange = t0,
                   !.consecutiveFailures = 0, !.consecutiveSuccesses = 0,
                   !.totalRequests = 0, !.totalFailures = 0]

\* transitionTo (called with the lock held)
transitionTo(b, newState, t0) ==
    IF b.state = newState THEN b
    ELSE IF newState = CircuitClosed
         THEN [b EXCEPT !.state = newState, !.lastStateChange = t0,
                        !.consecutiveFailures = 0, !.consecutiveSuccesses = 0,
                        !.totalRequests = 0, !.totalFailures = 0]
         ELSE [b EXCEPT !.state = newState, !.lastStateChange = t0,
                        !.consecutiveSuccesses = 0]

\* a timeout check that is off by one: exactly Timeout after the failure is too early
AllowRequest_StrictTimeout(b, t0) ==
    IF b.state = CircuitOpen
    THEN IF Since(b.lastFailure, t0) > b.config.Timeout
         THEN [cb |-> transitionTo(b, CircuitHalfOpen, t0), ok |-> TRUE]
         ELSE [cb |-> b, ok |-> FALSE]
    ELSE [cb |-> b, ok |-> TRUE]

\* AllowRequest: the breaker after the call and the value returned
AllowRequest(b, t0) ==
    IF b.state = CircuitOpen
    THEN IF Since(b.lastFailure, t0) >= b.config.Timeout
         THEN [cb |-> transitionTo(b, CircuitHalfOpen, t0), ok |-> TRUE]
         ELSE [cb |-> b, ok |-> FALSE]
    ELSE [cb |-> b, ok |-> TRUE]

\* a success threshold that is off by one
RecordSuccess_StrictThreshold(b, t0) ==
    LET c == [b EXCEPT !.totalRequests = @ + 1,
                       !.consecutiveFailures = 0,
                       !.consecutiveSuccesses = @ + 1]
    IN  IF c.state = CircuitHalfOpen
           /\ c.consecutiveSuccesses > c.config.SuccessThreshold
        THEN transitionTo(c, CircuitClosed, t0)
        ELSE c

\* a RecordSuccess that counts the success and never looks at the state
RecordSuccess_NoHalfOpenCase(b, t0) ==
    [b EXCEPT !.totalRequests = @ + 1,
              !.consecutiveFailures = 0,
              !.consecutiveSuccesses = @ + 1]

\* a RecordSuccess that closes the breaker from any state
RecordSuccess_ClosesFromOpen(b, t0) ==
    LET c == [b EXCEPT !.totalRequests = @ + 1,
                       !.consecutiveFailures = 0,
                       !.consecutiveSuccesses = @ + 1]
    IN  IF c.state # CircuitClosed
           /\ c.consecutiveSuccesses >= c.config.SuccessThreshold
        THEN transitionTo(c, CircuitClosed, t0)
        ELSE c

\* RecordSuccess
RecordSuccess(b, t0) ==
    LET c == [b EXCEPT !.totalRequests = @ + 1,
                       !.consecutiveFailures = 0,
                       !.consecutiveSuccesses = @ + 1]
    IN  IF c.state = CircuitHalfOpen
           /\ c.consecutiveSuccesses >= c.config.SuccessThreshold
        THEN transitionTo(c, CircuitClosed, t0)
        ELSE c

\* the counters and the time stamp RecordFailure sets before it looks at the state
countFailure(b, t0) ==
    [b EXCEPT !.totalRequests = @ + 1,
              !.totalFailures = @ + 1,
              !.consecutiveFailures = @ + 1,
              !.consecutiveSuccesses = 0,
              !.lastFailure = t0]

\* the failure-rate test of RecordFailure
rateReached(c) ==
    /\ c.totalRequests >= c.config.MinimumRequests
    /\ c.totalFailures * c.config.FailureRateThreshold.den
          >= c.config.FailureRateThreshold.num * c.totalRequests

\* a consecutive-failure threshold that is off by one
RecordFailure_StrictThreshold(b, t0) ==
    LET c == countFailure(b, t0)
    IN  IF c.state = CircuitClosed
        THEN IF c.consecutiveFailures > c.config.FailureThreshold
             THEN transitionTo(c, CircuitOpen, t0)
             ELSE IF rateReached(c) THEN transitionTo(c, CircuitOpen, t0) ELSE c
        ELSE IF c.state = CircuitHalfOpen
             THEN transitionTo(c, CircuitOpen, t0)
             ELSE c

\* a half-open breaker that needs the consecutive-failure threshold to reopen
RecordFailure_HalfOpenThreshold(b, t0) ==
    LET c == countFailure(b, t0)
    IN  IF c.state = CircuitClosed
        THEN IF c.consecutiveFailures >= c.config.FailureThreshold
             THEN transitionTo(c, CircuitOpen, t0)
             ELSE IF rateReached(c) THEN transitionTo(c, CircuitOpen, t0) ELSE c
        ELSE IF c.state = CircuitHalfOpen
                /\ c.consecutiveFailures >= c.config.FailureThreshold
             THEN transitionTo(c, CircuitOpen, t0)
             ELSE c

\* a failure-rate test that needs the rate to exceed the threshold
RecordFailure_StrictRate(b, t0) ==
    LET c == countFailure(b, t0)
    IN  IF c.state = CircuitClosed
        THEN IF c.consecutiveFailures >= c.config.FailureThreshold
             THEN transitionTo(c, CircuitOpen, t0)
             ELSE IF /\ c.totalRequests >= c.config.MinimumRequests
                     /\ c.totalFailures * c.config.FailureRateThreshold.den
                           > c.config.FailureRateThreshold.num * c.totalRequests
                  THEN transitionTo(c, CircuitOpen, t0)
                  ELSE c
        ELSE IF c.state = CircuitHalfOpen
             THEN transitionTo(c, CircuitOpen, t0)
             ELSE c

\* RecordFailure
RecordFailure(b, t0) ==
    LET c == countFailure(b, t0)
    IN  IF c.state = CircuitClosed
        THEN IF c.consecutiveFailures >= c.config.FailureThreshold
             THEN transitionTo(c, CircuitOpen, t0)
             ELSE IF rateReached(c) THEN transitionTo(c, CircuitOpen, t0) ELSE c
        ELSE IF c.state = CircuitHalfOpen
             THEN transitionTo(c, CircuitOpen, t0)
             ELSE c

\* a Reset that zeroes the counters and leaves the state alone
Reset_CountersOnly(b, t0) ==
    [b EXCEPT !.consecutiveFailures = 0, !.consecutiveSuccesses = 0,
              !.totalRequests = 0, !.totalFailures = 0,
              !.lastStateChange = t0]

\* Reset
Reset(b, t0) ==
    [b EXCEPT !.state = CircuitClosed,
              !.consecutiveFailures = 0, !.consecutiveSuccesses = 0,
              !.totalRequests = 0, !.totalFailures = 0,
              !.lastStateChange = t0]

(***************************************************************************)
(* errors.go: error values and their classification                        *)
(*                                                                         *)
(* An error is a record: its dynamic type, the status code of an APIError, *)
(* the sentinel it wraps (errors.Is), and `text`, the set of the           *)
(* classifier's patterns that occur in its lower-cased Error() string.     *)
(* The last four fields are those of a CircuitOpenError.                   *)
(***************************************************************************)
ErrorCategoryUnknown == "unknown"
ErrorCategoryRetryable == "retryable"
ErrorCategoryNonRetryable == "non-retryable"

MkError(type, status, is, text) ==
    [type |-> type, status |-> status, is |-> is, text |-> text,
     Provider |-> "", State |-> "", LastFailure |-> ZeroTime, RetryAfter |-> 0]

\* the nil error
NilError == MkError("nil", 0, "", {})

\* NewAPIError(provider, statusCode, ...)
NewAPIError(statusCode) == MkError("APIError", statusCode, "", {})

\* errors.New(msg) for a message holding the patterns `text`
NewTextError(text) == MkError("errorString", 0, "", text)

\* &CircuitOpenError{...}; its message holds none of the classifier's patterns
\* for the provider names of this repository
NewCircuitOpenError(provider, state, lastFailure, retryAfter) ==
    [type |-> "CircuitOpenError", status |-> 0, is |-> "", text |-> {},
     Provider |-> provider, State |-> state, LastFailure |-> lastFailure,
     RetryAfter |-> retryAfter]

classifyStatusCode(statusCode) ==
    IF statusCode = 429 THEN ErrorCategoryRetryable
    ELSE IF statusCode >= 500 /\ statusCode < 600 THEN ErrorCategoryRetryable
    ELSE IF statusCode = 408 THEN ErrorCategoryRetryable
    ELSE IF statusCode = 401 \/ statusCode = 403 THEN ErrorCategoryNonRetryable
    ELSE IF statusCode = 400 \/ statusCode = 404 THEN ErrorCategoryNonRetryable
    ELSE IF statusCode = 422 THEN ErrorCategoryNonRetryable
    ELSE IF statusCode >= 400 /\ statusCode < 500 THEN ErrorCategoryNonRetryable
    ELSE ErrorCategoryUnknown

networkPatterns ==
    {"connection refused", "connection reset", "no such host",
     "network is unreachable", "i/o timeout", "tls handshake", "eof"}

isNetworkError(err) ==
    /\ err.type # "nil"
    /\ \/ err.type \in {"net.Error", "net.OpError"}
       \/ err.text \cap networkPatterns # {}

\* a classifier that looks for a network fault before it looks for a status code
ClassifyError_NetworkFirst(err) ==
    IF err.type = "nil" THEN ErrorCategoryUnknown
    ELSE IF isNetworkError(err) THEN ErrorCategoryRetryable
    ELSE IF err.type = "APIError" THEN classifyStatusCode(err.status)
    ELSE IF err.is \in {"ErrRateLimitExceeded", "ErrServerError", "ErrNetworkError"}
         THEN ErrorCategoryRetryable
    ELSE IF err.is \in {"ErrInvalidRequest", "ErrModelNotFound", "ErrEmptyAPIKey",
                        "ErrEmptyModel", "ErrEmptyMessages", "ErrInvalidConfiguration"}
         THEN ErrorCategoryNonRetryable
    ELSE IF err.text \cap {"rate limit", "too many requests"} # {}
         THEN ErrorCategoryRetryable
    ELSE IF err.text \cap {"timeout", "connection refused"} # {}
         THEN ErrorCategoryRetryable
    ELSE IF err.text \cap {"unauthorized", "forbidden", "invalid api key",
                           "authentication"} # {}
         THEN ErrorCategoryNonRetryable
    ELSE ErrorCategoryUnknown

ClassifyError(err) ==
    IF err.type = "nil" THEN ErrorCategoryUnknown
    ELSE IF err.type = "APIError" THEN classifyStatusCode(err.status)
    ELSE IF isNetworkError(err) THEN ErrorCategoryRetryable
    ELSE IF err.is \in {"ErrRateLimitExceeded", "ErrServerError", "ErrNetworkError"}
         THEN ErrorCategoryRetryable
    ELSE IF err.is \in {"ErrInvalidRequest", "ErrModelNotFound", "ErrEmptyAPIKey",
                        "ErrEmptyModel", "ErrEmptyMessages", "ErrInvalidConfiguration"}
         THEN ErrorCategoryNonRetryable
    ELSE IF err.text \cap {"rate limit", "too many requests"} # {}
         THEN ErrorCategoryRetryable
    ELSE IF err.text \cap {"timeout", "connection refused"} # {}
         THEN ErrorCategoryRetryable
    ELSE IF err.text \cap {"unauthorized", "forbidden", "invalid api key",
                           "authentication"} # {}
         THEN ErrorCategoryNonRetryable
    ELSE ErrorCategoryUnknown

\* unknown errors count as retryable (fail-open)
IsRetryableError(err) ==
    ClassifyError(err) \in {ErrorCategoryRetryable, ErrorCategoryUnknown}

IsNonRetryableError(err) == ClassifyError(err) = ErrorCategoryNonRetryable

(***************************************************************************)
(* cache.go: the CacheManager                                              *)
(*                                                                         *)
(* A pointer field is <<>> when nil and <<v>> when set.  TTL and the       *)
(* timestamps of an entry are in ticks.  The float64 parameters of a       *)
(* request are written in tenths (7 is 0.7); they are finite numbers and   *)
(* the strings are valid UTF-8, for which json.Marshal succeeds and gives  *)
(* different text for different values.                                    *)
(***************************************************************************)
Nil == <<>>
Ptr(v) == <<v>>

\* 1 * time.Hour, in ticks of ten seconds
DefaultTTL == 360
DefaultKeyPrefix == "omnillm:cache"

CacheConfig(ttl, prefix, skip, models, exclude, temperature, seed) ==
    [TTL |-> ttl, KeyPrefix |-> prefix, SkipStreaming |-> skip,
     CacheableModels |-> models, ExcludeParameters |-> exclude,
     IncludeTemperature |-> temperature, IncludeSeed |-> seed]

DefaultCacheConfig ==
    CacheConfig(DefaultTTL, DefaultKeyPrefix, TRUE, <<>>, Ptr(<<"user">>), TRUE, TRUE)

\* NewCacheManager: m.config, the zero TTL, prefix and exclusion list defaulted
NewCacheManager(config) ==
    [config EXCEPT !.TTL = IF @ = 0 THEN DefaultTTL ELSE @,
                   !.KeyPrefix = IF @ = "" THEN DefaultKeyPrefix ELSE @,
                   !.ExcludeParameters = IF @ = Nil THEN Ptr(<<"user">>) ELSE @]

\* provider.ToolCall, provider.Message, provider.ChatCompletionRequest: the fields
\* the cache, the estimator and the client read
ToolCall(id, type, name, arguments) ==
    [ID |-> id, Type |-> type, Name |-> name, Arguments |-> arguments]

Message(role, content, name, toolCallID, toolCalls) ==
    [Role |-> role, Content |-> content, Name |-> name, ToolCallID |-> toolCallID,
     ToolCalls |-> toolCalls]

ChatCompletionRequest(model, messages) ==
    [Model |-> model, Messages |-> messages, MaxTokens |-> Nil, Temperature |-> Nil,
     TopP |-> Nil, TopK |-> Nil, Seed |-> Nil, Stop |-> <<>>, User |-> Nil,
     Stream |-> Nil]

\* provider.ChatCompletionResponse: its ID and the two ProviderMetadata keys the
\* client writes (absent: <<>>)
ChatCompletionResponse(id) == [ID |-> id, cache_hit |-> Nil, cached_at |-> Nil]

CacheEntry(response, cachedAt, expiresAt, model, requestHash) ==
    [Response |-> response, CachedAt |-> cachedAt, ExpiresAt |-> expiresAt,
     Model |-> model, RequestHash |-> requestHash]

\* e.IsExpired() at clock value t0: time.Now().After(e.ExpiresAt)
IsExpired(e, t0) == t0 > e.ExpiresAt

\* ShouldCache
ShouldCache(config, req) ==
    IF config.SkipStreaming /\ req.Stream = Ptr(TRUE) THEN FALSE
    ELSE IF Len(config.CacheableModels) > 0
         THEN \E i \in 1..Len(config.CacheableModels) :
                 req.Model = config.CacheableModels[i]
         ELSE TRUE

\* the normalizedMessage built from msg
normalizedMessage(msg) ==
    [role |-> msg.Role, content |-> msg.Content, name |-> msg.Name,
     tool_call_id |-> msg.ToolCallID]

\* json.Marshal of a struct whose fields `always` are written and whose fields
\* `pointers` and `slices` are omitempty: a nil pointer and an empty slice leave
\* no trace, a set pointer is written as the value it points to
Marshal(v, always, pointers, slices) ==
    LET present == always \cup {f \in pointers : v[f] # Nil}
                          \cup {f \in slices : Len(v[f]) > 0}
    IN  [f \in present |-> IF f \in pointers THEN v[f][1] ELSE v[f]]

\* sha256.Sum256(data), its first 16 bytes in hex: different data are taken to
\* have different sums
Sum256(data) == [sha256 |-> data]

\* a hashRequest that leaves top_k out of the normalized request
hashRequest_NoTopK(config, req) ==
    LET messages == [i \in 1..Len(req.Messages) |->
                        Marshal(normalizedMessage(req.Messages[i]),
                                {"role", "content"}, {"name", "tool_call_id"}, {})]
        normalized ==
            [model |-> req.Model,
             messages |-> messages,
             max_tokens |-> req.MaxTokens,
             temperature |-> IF config.IncludeTemperature THEN req.Temperature ELSE Nil,
             top_p |-> req.TopP,
             top_k |-> Nil,
             seed |-> IF config.IncludeSeed THEN req.Seed ELSE Nil,
             stop |-> req.Stop]
    IN  Sum256(Marshal(normalized, {"model", "messages"},
                       {"max_tokens", "temperature", "top_p", "top_k", "seed"},
                       {"stop"}))

\* hashRequest
hashRequest(config, req) ==
    LET messages == [i \in 1..Len(req.Messages) |->
                        Marshal(normalizedMessage(req.Messages[i]),
                                {"role", "content"}, {"name", "tool_call_id"}, {})]
        normalized ==
            [model |-> req.Model,
             messages |-> messages,
             max_tokens |-> req.MaxTokens,
             temperature |-> IF config.IncludeTemperature THEN req.Temperature ELSE Nil,
             top_p |-> req.TopP,
             top_k |-> req.TopK,
             seed |-> IF config.IncludeSeed THEN req.Seed ELSE Nil,
             stop |-> req.Stop]
    IN  Sum256(Marshal(normalized, {"model", "messages"},
                       {"max_tokens", "temperature", "top_p", "top_k", "seed"},
                       {"stop"}))

\* BuildCacheKey: fmt.Sprintf("%s:%s", prefix, hash), kept as the pair
BuildCacheKey(config, req) == <<config.KeyPrefix, hashRequest(config, req)>>

\* kvs.GetAny(ctx, key, &entry) on a store holding `store`: `fault` is the error of
\* the round trip (nil when the store answers).  A key the store does not hold,
\* and the empty string Delete leaves under a key, decode to no entry: an error.
GetAny(store, key, fault) ==
    IF fault.type # "nil" THEN [err |-> fault, value |-> Nil]
    ELSE IF key \notin DOMAIN store \/ store[key] = Nil
         THEN [err |-> NewTextError({}), value |-> Nil]
         ELSE [err |-> fault, value |-> store[key]]

\* kvs.SetAny(ctx, key, value) and kvs.SetString(ctx, key, ""): the store after
\* the call and the error returned
SetAny(store, key, value, fault) ==
    IF fault.type # "nil" THEN [kvs |-> store, err |-> fault]
    ELSE [kvs |-> [k \in DOMAIN store \cup {key} |->
                      IF k = key THEN value ELSE store[k]],
          err |-> fault]

\* a Get that does not look at ExpiresAt
Get_NoExpiry(config, store, req, fault, t0) ==
    LET key == BuildCacheKey(config, req)
        r == GetAny(store, key, fault)
    IN  IF r.err.type # "nil" THEN [entry |-> Nil, err |-> NilError]
        ELSE [entry |-> r.value, err |-> NilError]

\* Get at clock value t0: the entry returned (<<>>: nil) and the error
Get(config, store, req, fault, t0) ==
    LET key == BuildCacheKey(config, req)
        r == GetAny(store, key, fault)
    IN  IF r.err.type # "nil" THEN [entry |-> Nil, err |-> NilError]
        ELSE IF IsExpired(r.value[1], t0) THEN [entry |-> Nil, err |-> NilError]
        ELSE [entry |-> r.value, err |-> NilError]

\* a Set that stamps the entry with the clock value and no TTL
Set_NoTTL(config, store, req, resp, fault, t0) ==
    LET key == BuildCacheKey(config, req)
        entry == CacheEntry(resp, t0, t0, req.Model, hashRequest(config, req))
    IN  SetAny(store, key, Ptr(entry), fault)

\* Set at clock value t0
Set(config, store, req, resp, fault, t0) ==
    LET key == BuildCacheKey(config, req)
        entry == CacheEntry(resp, t0, t0 + config.TTL, req.Model,
                            hashRequest(config, req))
    IN  SetAny(store, key, Ptr(entry), fault)

\* Delete
Delete(config, store, req, fault) ==
    SetAny(store, BuildCacheKey(config, req), Nil, fault)

(***************************************************************************)
(* The token estimator and ValidateTokens                                  *)
(*                                                                         *)
(* CharactersPerToken is a float64 in the code; the model keeps the whole  *)
(* ratios, for which int(float64(n) / ratio) is n \div ratio.              *)
(***************************************************************************)
TokenEstimatorConfig(charactersPerToken, customContextWindows, overhead) ==
    [CharactersPerToken |-> charactersPerToken,
     CustomContextWindows |-> customContextWindows,
     TokenOverheadPerMessage |-> overhead]

\* a nil CustomContextWindows map
NoWindows == [m \in {} |-> 0]

DefaultTokenEstimatorConfig == TokenEstimatorConfig(4, NoWindows, 4)

\* NewTokenEstimator: the defaultTokenEstimator, its zero fields defaulted
NewTokenEstimator(config) ==
    [config |-> [config EXCEPT !.CharactersPerToken = IF @ = 0 THEN 4 ELSE @,
                               !.TokenOverheadPerMessage = IF @ = 0 THEN 4 ELSE @],
     failing |-> FALSE]

\* another implementation of the TokenEstimator interface, whose EstimateTokens
\* returns an error
FailingEstimator == [config |-> DefaultTokenEstimatorConfig, failing |-> TRUE]

RECURSIVE toolCallChars(_)
toolCallChars(tcs) ==
    IF tcs = <<>> THEN 0
    ELSE Len(Head(tcs).ID) + Len(Head(tcs).Type) + Len(Head(tcs).Name)
         + Len(Head(tcs).Arguments) + toolCallChars(Tail(tcs))

\* totalChars after the loop over the messages
RECURSIVE totalChars(_)
totalChars(messages) ==
    IF messages = <<>> THEN 0
    ELSE LET msg == Head(messages)
         IN  Len(msg.Role) + Len(msg.Content) + toolCallChars(msg.ToolCalls)
             + (IF msg.ToolCallID # Nil THEN Len(msg.ToolCallID[1]) ELSE 0)
             + (IF msg.Name # Nil THEN Len(msg.Name[1]) ELSE 0)
             + totalChars(Tail(messages))

\* EstimateTokens: the estimate and the error
EstimateTokens(e, model, messages) ==
    IF e.failing THEN [tokens |-> 0, err |-> NewTextError({})]
    ELSE IF Len(messages) = 0 THEN [tokens |-> 0, err |-> NilError]
    ELSE [tokens |-> (totalChars(messages) \div e.config.CharactersPerToken)
                     + Len(messages) * e.config.TokenOverheadPerMessage + 3,
          err |-> NilError]

\* getExtendedContextWindow, for the models used here
getExtendedContextWindow(model) ==
    IF model = "gpt-4o" THEN 128000
    ELSE IF model = "phi" THEN 2048
    ELSE 4096

\* GetContextWindow: custom overrides first, then the built-in tables.  None of
\* the models used here has an entry in the ModelInfo registry.
GetContextWindow(e, model) ==
    IF model \in DOMAIN e.config.CustomContextWindows
    THEN e.config.CustomContextWindows[model]
    ELSE getExtendedContextWindow(model)

\* ValidateTokens: the TokenValidation (<<>>: nil) and the error
ValidateTokens(e, model, messages, maxCompletionTokens) ==
    LET est == EstimateTokens(e, model, messages)
        estimated == est.tokens
        contextWindow == GetContextWindow(e, model)
        available == contextWindow - estimated
    IN  IF est.err.type # "nil"
        THEN [validation |-> Nil, err |-> MkError("fmt.wrapError", 0, "", {})]
        ELSE [validation |->
                  Ptr([EstimatedTokens |-> estimated,
                       ContextWindow |-> contextWindow,
                       MaxCompletionTokens |-> maxCompletionTokens,
                       AvailableTokens |-> available,
                       ExceedsLimit |-> estimated > contextWindow,
                       ExceedsWithCompletion |->
                           /\ maxCompletionTokens > 0
                           /\ estimated + maxCompletionTokens > contextWindow]),
              err |-> NilError]

\* &TokenLimitError{...}
TokenLimitError(estimatedTokens, contextWindow, availableTokens, model) ==
    [type |-> "TokenLimitError", EstimatedTokens |-> estimatedTokens,
     ContextWindow |-> contextWindow, AvailableTokens |-> availableTokens,
     Model |-> model]

(***************************************************************************)
(* client.go: ChatClient.CreateChatCompletion                              *)
(***************************************************************************)
\* the ChatClient NewClient builds: is c.cache set, c.validateTokens,
\* c.tokenEstimator (<<>>: nil)
ChatClient(cache, validateTokens, tokenEstimator) ==
    [cache |-> cache, validateTokens |-> validateTokens,
     tokenEstimator |-> tokenEstimator]

\* what one CreateChatCompletion of the client gives: the response (<<>>: nil) and
\* the error returned, the store afterwards, and how many times it called
\* cache.Get, the provider and cache.Set
ClientResult(resp, err, store, lookups, invoked, stored) ==
    [resp |-> resp, err |-> err, kvs |-> store, lookups |-> lookups,
     invoked |-> invoked, stored |-> stored]

\* the part of the client's CreateChatCompletion from the call of the provider
\* on: the provider answers with a response of identifier id, or with the error out
callProvider(c, config, store, req, id, out, setFault, t0, lookups) ==
    LET resp == IF out.type = "nil" THEN Ptr(ChatCompletionResponse(id)) ELSE Nil
    IN  IF out.type = "nil" /\ c.cache /\ ShouldCache(config, req)
        THEN ClientResult(resp, out,
                          Set(config, store, req, resp[1], setFault, t0).kvs,
                          lookups, 1, 1)
        ELSE ClientResult(resp, out, store, lookups, 1, 0)

\* a cache check that returns the cached response without the metadata
checkCache_NoMetadata(c, config, store, req, getFault, id, out, setFault, t0) ==
    IF c.cache /\ ShouldCache(config, req)
    THEN LET g == Get(config, store, req, getFault, t0)
         IN  IF g.err.type = "nil" /\ g.entry # Nil
             THEN ClientResult(Ptr(g.entry[1].Response), NilError, store, 1, 0, 0)
             ELSE callProvider(c, config, store, req, id, out, setFault, t0, 1)
    ELSE callProvider(c, config, store, req, id, out, setFault, t0, 0)

\* the part of the client's CreateChatCompletion from the cache check on
checkCache(c, config, store, req, getFault, id, out, setFault, t0) ==
    IF c.cache /\ ShouldCache(config, req)
    THEN LET g == Get(config, store, req, getFault, t0)
         IN  IF g.err.type = "nil" /\ g.entry # Nil
             THEN ClientResult(
                      Ptr([g.entry[1].Response EXCEPT
                              !.cache_hit = Ptr(TRUE),
                              !.cached_at = Ptr(g.entry[1].CachedAt)]),
                      NilError, store, 1, 0, 0)
             ELSE callProvider(c, config, store, req, id, out, setFault, t0, 1)
    ELSE callProvider(c, config, store, req, id, out, setFault, t0, 0)

\* a client that looks the request up in the cache before it validates the tokens
ClientCreateChatCompletion_CacheFirst(c, config, store, req, getFault, id, out, setFault, t0) ==
    LET r == checkCache(c, config, store, req, getFault, id, out, setFault, t0)
    IN  IF r.invoked = 0 THEN r
        ELSE IF c.validateTokens /\ c.tokenEstimator # Nil
        THEN LET maxTokens == IF req.MaxTokens # Nil THEN req.MaxTokens[1] ELSE 4096
                 v == ValidateTokens(c.tokenEstimator[1], req.Model, req.Messages,
                                     maxTokens)
             IN  IF v.err.type # "nil"
                 THEN ClientResult(Nil, v.err, store, r.lookups, 0, 0)
                 ELSE IF v.validation[1].ExceedsLimit
                 THEN ClientResult(Nil,
                          TokenLimitError(v.validation[1].EstimatedTokens,
                                          v.validation[1].ContextWindow,
                                          v.validation[1].AvailableTokens,
                                          req.Model),
                          store, r.lookups, 0, 0)
                 ELSE r
        ELSE r

\* c.CreateChatCompletion(ctx, req) at clock value t0, on a store holding `store`
\* that answers the lookup with getFault and the write with setFault, the
\* provider answering with a response of identifier id or with the error out
ClientCreateChatCompletion(c, config, store, req, getFault, id, out, setFault, t0) ==
    IF c.validateTokens /\ c.tokenEstimator # Nil
    THEN LET maxTokens == IF req.MaxTokens # Nil THEN req.MaxTokens[1] ELSE 4096
             v == ValidateTokens(c.tokenEstimator[1], req.Model, req.Messages,
                                 maxTokens)
         IN  IF v.err.type # "nil"
             THEN ClientResult(Nil, v.err, store, 0, 0, 0)
             ELSE IF v.validation[1].ExceedsLimit
             THEN ClientResult(Nil,
                      TokenLimitError(v.validation[1].EstimatedTokens,
                                      v.validation[1].ContextWindow,
                                      v.validation[1].AvailableTokens,
                                      req.Model),
                      store, 0, 0, 0)
             ELSE checkCache(c, config, store, req, getFault, id, out, setFault, t0)
    ELSE checkCache(c, config, store, req, getFault, id, out, setFault, t0)

(***************************************************************************)
(* State                                                                   *)
(***************************************************************************)
VARIABLES
    now,              \* the clock
    \* -- a stand-alone circuit breaker, driven through its public methods
    cb,               \* the CircuitBreaker
    hLastOp,          \* history: the last method called on cb
    hRet,             \* history: what the last AllowRequest returned
    hPrevState,       \* history: cb's state when the last method was called
    hFailStreak,      \* history: RecordFailure calls since the last RecordSuccess or Reset
    hRecords,         \* history: records since cb was built, reset or last closed
    hFailures,        \* history: failures among them
    hProbeSuccesses,  \* history: RecordSuccess calls in the current or last half-open period
    hAdmitted,        \* history: AllowRequest calls that returned true since cb became
                      \* half-open, none of them followed by a record or a Reset
    hLastFailAt,      \* history: the clock at the last RecordFailure
    \* -- a FallbackProvider
    fallbacks,        \* fp.fallbacks, as provider names; fp.primary is "primary"
    cbEnabled,        \* fp.circuitBreakers != nil
    cbConfig,         \* *fp.cbConfig, as passed in (defaults not applied)
    circuitBreakers,  \* fp.circuitBreakers: provider name -> CircuitBreaker
    \* -- the request in flight through CreateChatCompletion
    pc,               \* "idle", "gate" (entering tryProvider), "call" (provider call in flight), "done"
    idx,              \* position of the current candidate: 1 is the primary
    start,            \* tryProvider's start := time.Now()
    attempts,         \* the attempts slice
    callCount,        \* calls made to each candidate's provider for this request
    retKind,          \* what was returned: "none", "resp", "error", "FallbackError"
    resp,             \* the response returned
    retErr,           \* the error returned, or the LastError of the FallbackError
    retAttempts,      \* the Attempts of the FallbackError
    nreq,             \* requests started so far
    streaming,        \* the request in flight is a CreateChatCompletionStream
    canceled,         \* the request's ctx is canceled
    \* -- the fallbackAwareStream the last streaming request returned
    streamProvider,   \* s.providerName, "" when no stream was returned
    streamClosed,     \* s.closed
    nrecv,            \* Recv calls made on it
    hRecvErr,         \* history: the error the last Recv returned
    \* -- goroutines calling one breaker (cb) concurrently
    mu,               \* cb.mu: the goroutine holding the write lock (0: none), the readers
    tpc,              \* goroutine -> where it is in its call
    top,              \* goroutine -> the method it is calling
    tloc,             \* goroutine -> the fields it has read so far
    tret,             \* goroutine -> what its last call returned
    lin,              \* history: the breaker the calls give when run whole, in the order they write
    ncalls,           \* calls started so far
    \* -- the CacheManager
    cacheConfig,      \* m.config
    kvs,              \* m.kvs: what the key-value store holds, key -> value
    hCache,           \* history: the last Get or Set, what the store answered, what was returned
    \* -- the ChatClient
    client,           \* c.cache # nil, c.validateTokens, c.tokenEstimator
    hClient,          \* history: the client's last CreateChatCompletion: what the store held and
                      \* answered, what was returned, the calls made
    providerCalls,    \* calls c.provider has received so far
    nops,             \* cache and client operations so far
    hWriter,          \* history: key -> the last Set that wrote it: request, response, time
    \* -- functions applied to drawn arguments
    hKeyReqs,         \* history: the last two requests BuildCacheKey was given
    hKeys,            \* history: the keys it returned for them
    hShouldReq,       \* history: the last request ShouldCache was given (none: Nil)
    hShould,          \* history: what it returned
    hErr,             \* history: the last error ClassifyError was given
    hCategory,        \* history: the category it returned
    \* -- the provider invocation last made by the FallbackProvider
    hInvRecords,      \* history: RecordSuccess and RecordFailure calls it has led to
    \* -- the providers behind the FallbackProvider
    healthy           \* they have recovered: from now on every call succeeds

cbVars == <<cb, hLastOp, hRet, hPrevState, hFailStreak, hRecords, hFailures,
            hProbeSuccesses, hAdmitted, hLastFailAt>>
fpVars == <<fallbacks, cbEnabled, cbConfig, circuitBreakers>>
reqVars == <<pc, idx, start, attempts, callCount, retKind, resp, retErr,
             retAttempts, nreq>>
ctxVars == <<streaming, canceled>>
stVars == <<streamProvider, streamClosed, nrecv, hRecvErr>>
ccVars == <<mu, tpc, top, tloc, tret, lin, ncalls>>
caVars == <<cacheConfig, kvs, hCache>>
clVars == <<client, hClient, providerCalls, nops, hWriter>>
pfVars == <<hKeyReqs, hKeys, hShouldReq, hShould, hErr, hCategory>>
\* the layers around the provider chain
invVars == <<hInvRecords>>
lvVars == <<healthy>>
outerVars == <<caVars, clVars, pfVars, invVars, lvVars>>
vars == <<now, cbVars, fpVars, reqVars, ctxVars, stVars, ccVars, outerVars>>

(***************************************************************************)
(* The configurations the stand-alone breaker is built with                *)
(***************************************************************************)
CBConfigs ==
    { \* TestCircuitBreaker_OpensOnFailureRate
      CircuitBreakerConfig(100, 2, 1, Rate(1, 2), 10),
      \* a small one: both thresholds within reach of a few records
      CircuitBreakerConfig(3, 2, 2, Rate(1, 2), 4),
      \* the zero config: every field takes its default
      CircuitBreakerConfig(0, 0, 0, Rate(0, 1), 0) }

NoResponse == [ID |-> "", fallback_provider_used |-> "", fallback_attempt_count |-> 0]

\* the FallbackProvider of a behaviour that only drives the stand-alone breaker
fpIdle ==
    /\ fallbacks = <<>>
    /\ cbEnabled = FALSE
    /\ cbConfig = CircuitBreakerConfig(0, 0, 0, Rate(0, 1), 0)
    /\ circuitBreakers = [n \in {} |-> 0]

reqIdle ==
    /\ pc = "idle"
    /\ idx = 0
    /\ start = 0
    /\ attempts = <<>>
    /\ callCount = <<>>
    /\ retKind = "none"
    /\ resp = NoResponse
    /\ retErr = NilError
    /\ retAttempts = <<>>
    /\ nreq = 0
    /\ streaming = FALSE
    /\ canceled = FALSE

\* no stream has been returned
stIdle ==
    /\ streamProvider = ""
    /\ streamClosed = FALSE
    /\ nrecv = 0
    /\ hRecvErr = NilError

\* no goroutine is calling the stand-alone breaker
ccIdle ==
    /\ mu = [writer |-> 0, readers |-> {}]
    /\ tpc = <<>>
    /\ top = <<>>
    /\ tloc = <<>>
    /\ tret = <<>>
    /\ lin = cb
    /\ ncalls = 0

\* the key-value store holding nothing
NoStore == [k \in {} |-> Nil]

\* no call of the CacheManager yet
NoCacheCall ==
    [op |-> "none", req |-> Nil, resp |-> Nil, fault |-> NilError, held |-> Nil,
     entry |-> Nil, err |-> NilError, at |-> 0]

\* no CacheManager is in use
caIdle ==
    /\ cacheConfig = DefaultCacheConfig
    /\ kvs = NoStore
    /\ hCache = NoCacheCall

\* no request of the client yet
NoClientCall ==
    [req |-> Nil, fault |-> NilError, held |-> Nil, writer |-> Nil, resp |-> Nil,
     err |-> NilError, lookups |-> 0, invoked |-> 0, stored |-> 0, at |-> 0]

\* no ChatClient is in use
clIdle ==
    /\ client = ChatClient(FALSE, FALSE, Nil)
    /\ hClient = NoClientCall
    /\ providerCalls = 0
    /\ nops = 0
    /\ hWriter = NoStore

\* no function has been applied
pfIdle ==
    /\ hKeyReqs = <<>>
    /\ hKeys = <<>>
    /\ hShouldReq = Nil
    /\ hShould = TRUE
    /\ hErr = NilError
    /\ hCategory = ErrorCategoryUnknown

\* no provider has been invoked
invIdle == hInvRecords = 0

\* the providers are as unreliable as ProviderOutcomes says
lvIdle == healthy = FALSE

outerIdle == caIdle /\ clIdle /\ pfIdle /\ invIdle /\ lvIdle

InitCB ==
    /\ now = 0
    /\ \E config \in CBConfigs : cb = NewCircuitBreaker(config, 0)
    /\ hLastOp = "NewCircuitBreaker"
    /\ hRet = TRUE
    /\ hPrevState = CircuitClosed
    /\ hFailStreak = 0
    /\ hRecords = 0
    /\ hFailures = 0
    /\ hProbeSuccesses = 0
    /\ hAdmitted = 0
    /\ hLastFailAt = ZeroTime
    /\ fpIdle
    /\ reqIdle
    /\ stIdle
    /\ ccIdle
    /\ outerIdle

(***************************************************************************)
(* The methods of the stand-alone breaker                                  *)
(***************************************************************************)
\* time passes
Tick ==
    /\ now < MaxTime
    /\ now' = now + 1
    /\ UNCHANGED <<cbVars, fpVars, reqVars, ctxVars, stVars, ccVars, outerVars>>

\* cb.AllowRequest()
CBAllowRequest ==
    LET r == AllowRequest(cb, now)
    IN  /\ cb.state = CircuitHalfOpen => hAdmitted < MaxAdmitted
        /\ cb' = r.cb
        /\ hAdmitted' = IF r.cb.state = CircuitHalfOpen /\ r.ok
                        THEN hAdmitted + 1 ELSE 0
        /\ hRet' = r.ok
        /\ hLastOp' = "AllowRequest"
        /\ hPrevState' = cb.state
        /\ hProbeSuccesses' =
              IF cb.state # CircuitHalfOpen /\ r.cb.state = CircuitHalfOpen
              THEN 0 ELSE hProbeSuccesses
        /\ UNCHANGED <<now, outerVars, hFailStreak, hRecords, hFailures, hLastFailAt,
                       fpVars, reqVars, ctxVars, stVars, ccVars>>

\* cb.RecordSuccess()
CBRecordSuccess ==
    /\ hRecords < MaxRecords
    /\ cb' = RecordSuccess(cb, now)
    /\ hLastOp' = "RecordSuccess"
    /\ hPrevState' = cb.state
    /\ hFailStreak' = 0
    /\ hRecords' = IF cb.state # CircuitClosed /\ cb'.state = CircuitClosed
                   THEN 0 ELSE hRecords + 1
    /\ hFailures' = IF cb.state # CircuitClosed /\ cb'.state = CircuitClosed
                    THEN 0 ELSE hFailures
    /\ hProbeSuccesses' = IF cb.state = CircuitHalfOpen
                          THEN hProbeSuccesses + 1 ELSE hProbeSuccesses
    /\ hAdmitted' = 0
    /\ UNCHANGED <<now, outerVars, hRet, hLastFailAt, fpVars, reqVars, ctxVars, stVars, ccVars>>

\* cb.RecordFailure()
CBRecordFailure ==
    /\ hRecords < MaxRecords
    /\ cb' = RecordFailure(cb, now)
    /\ hLastOp' = "RecordFailure"
    /\ hPrevState' = cb.state
    /\ hFailStreak' = hFailStreak + 1
    /\ hRecords' = hRecords + 1
    /\ hFailures' = hFailures + 1
    /\ hLastFailAt' = now
    /\ hAdmitted' = 0
    /\ UNCHANGED <<now, outerVars, hRet, hProbeSuccesses, fpVars, reqVars, ctxVars, stVars, ccVars>>

\* cb.Reset()
CBReset ==
    /\ cb' = Reset(cb, now)
    /\ hLastOp' = "Reset"
    /\ hPrevState' = cb.state
    /\ hFailStreak' = 0
    /\ hRecords' = 0
    /\ hFailures' = 0
    /\ hProbeSuccesses' = 0
    /\ hAdmitted' = 0
    /\ UNCHANGED <<now, outerVars, hRet, hLastFailAt, fpVars, reqVars, ctxVars, stVars, ccVars>>

NextCB ==
    \/ Tick
    \/ CBAllowRequest
    \/ CBRecordSuccess
    \/ CBRecordFailure
    \/ CBReset

SpecCB == InitCB /\ [][NextCB]_vars

(***************************************************************************)
(* fallback.go: the FallbackProvider                                       *)
(***************************************************************************)
Primary == "primary"

\* the fallback lists the orchestrator is built with
FallbackLists == { <<>>, <<"fallback1">>, <<"fallback1", "fallback2">> }

\* the circuit-breaker configs it is built with (TestFallbackProvider_WithCircuitBreaker:
\* threshold 2, one success closes, a short timeout, rate threshold left zero)
FBConfigs == { CircuitBreakerConfig(2, 1, 2, Rate(0, 1), 10) }

\* what a provider's CreateChatCompletion returns as its error: nil, a
\* Retryable error, a NonRetryable error, an Unknown error ("mock failure")
ProviderOutcomes ==
    { NilError, NewAPIError(500), NewAPIError(401), NewTextError({}) }

\* context.Canceled ("context canceled"): what a provider returns once the
\* request's ctx is canceled
ContextCanceled == MkError("context.Canceled", 0, "", {})

\* what the provider call in flight can return
CallOutcomes ==
    IF canceled THEN {ContextCanceled}
    ELSE IF healthy THEN {NilError}
    ELSE ProviderOutcomes

\* the candidates, primary first
candidates == <<Primary>> \o fallbacks

\* NewFallbackProvider: one breaker per provider name when a config is given
NewFallbackProvider(fbs, enabled, config, t0) ==
    [fallbacks |-> fbs,
     cbEnabled |-> enabled,
     cbConfig |-> config,
     circuitBreakers |->
        IF enabled
        THEN [n \in {Primary} \cup {fbs[i] : i \in 1..Len(fbs)}
                 |-> NewCircuitBreaker(config, t0)]
        ELSE [n \in {} |-> 0]]

\* a gate that never consults the breaker
shouldTryProvider_Always(cbs, enabled, providerName, t0) ==
    [cbs |-> cbs, ok |-> TRUE]

\* shouldTryProvider: the breakers after the call and the value returned
shouldTryProvider(cbs, enabled, providerName, t0) ==
    IF ~enabled \/ providerName \notin DOMAIN cbs
    THEN [cbs |-> cbs, ok |-> TRUE]
    ELSE LET r == AllowRequest(cbs[providerName], t0)
         IN  [cbs |-> [cbs EXCEPT ![providerName] = r.cb], ok |-> r.ok]

\* recordSuccess
recordSuccess(cbs, enabled, providerName, t0) ==
    IF ~enabled \/ providerName \notin DOMAIN cbs
    THEN cbs
    ELSE [cbs EXCEPT ![providerName] = RecordSuccess(@, t0)]

\* a recordFailure with the class check inverted
recordFailure_Inverted(cbs, enabled, providerName, err, t0) ==
    IF ~enabled \/ IsRetryableError(err) \/ providerName \notin DOMAIN cbs
    THEN cbs
    ELSE [cbs EXCEPT ![providerName] = RecordFailure(@, t0)]

\* a recordFailure that does not look at the error's class
recordFailure_NoClassCheck(cbs, enabled, providerName, err, t0) ==
    IF ~enabled \/ providerName \notin DOMAIN cbs
    THEN cbs
    ELSE [cbs EXCEPT ![providerName] = RecordFailure(@, t0)]

\* recordFailure: only errors IsRetryableError accepts reach the breaker
recordFailure(cbs, enabled, providerName, err, t0) ==
    IF ~enabled \/ ~IsRetryableError(err) \/ providerName \notin DOMAIN cbs
    THEN cbs
    ELSE [cbs EXCEPT ![providerName] = RecordFailure(@, t0)]

FallbackAttempt(provider, err, duration, skipped) ==
    [Provider |-> provider, Error |-> err, Duration |-> duration, Skipped |-> skipped]

\* &FallbackError{Attempts: attempts, LastError: err}
FallbackError(atts, err) == [Attempts |-> atts, LastError |-> err]

\* a chain that goes on after a success
Decide_PastSuccess(i, err, n) ==
    IF err.type = "nil" /\ i = n THEN "return resp"
    ELSE IF err.type = "nil" THEN "next"
    ELSE IF i = 1
    THEN IF IsNonRetryableError(err) THEN "return err"
         ELSE IF n > 1 THEN "next" ELSE "FallbackError"
    ELSE IF IsNonRetryableError(err) THEN "FallbackError"
         ELSE IF i < n THEN "next" ELSE "FallbackError"

\* a chain that falls back only on errors classified Retryable
Decide_OnlyRetryable(i, err, n) ==
    IF err.type = "nil" THEN "return resp"
    ELSE IF i = 1
    THEN IF ClassifyError(err) # ErrorCategoryRetryable THEN "return err"
         ELSE IF n > 1 THEN "next" ELSE "FallbackError"
    ELSE IF ClassifyError(err) # ErrorCategoryRetryable THEN "FallbackError"
         ELSE IF i < n THEN "next" ELSE "FallbackError"

\* a chain that does not look at the error's class
Decide_NoClassCheck(i, err, n) ==
    IF err.type = "nil" THEN "return resp"
    ELSE IF i < n THEN "next" ELSE "FallbackError"

\* a chain that returns a fallback's NonRetryable error as it is
Decide_RawFromFallback(i, err, n) ==
    IF err.type = "nil" THEN "return resp"
    ELSE IF IsNonRetryableError(err) THEN "return err"
    ELSE IF i < n THEN "next" ELSE "FallbackError"

\* CreateChatCompletion's control flow once tryProvider has returned err for
\* candidate i of n: return the response, return the error as it is, go on to the
\* next candidate, or return a FallbackError
Decide(i, err, n) ==
    IF err.type = "nil" THEN "return resp"
    ELSE IF i = 1
    THEN IF IsNonRetryableError(err) THEN "return err"
         ELSE IF n > 1 THEN "next" ELSE "FallbackError"
    ELSE IF IsNonRetryableError(err) THEN "FallbackError"
         ELSE IF i < n THEN "next" ELSE "FallbackError"

InitFB ==
    /\ now = 0
    /\ cb = NewCircuitBreaker(DefaultCircuitBreakerConfig, 0)
    /\ hLastOp = "NewCircuitBreaker"
    /\ hRet = TRUE
    /\ hPrevState = CircuitClosed
    /\ hFailStreak = 0
    /\ hRecords = 0
    /\ hFailures = 0
    /\ hProbeSuccesses = 0
    /\ hAdmitted = 0
    /\ hLastFailAt = ZeroTime
    /\ \E fbs \in FallbackLists, enabled \in BOOLEAN, config \in FBConfigs :
          LET fp == NewFallbackProvider(fbs, enabled, config, 0)
          IN  /\ fallbacks = fp.fallbacks
              /\ cbEnabled = fp.cbEnabled
              /\ cbConfig = fp.cbConfig
              /\ circuitBreakers = fp.circuitBreakers
    /\ reqIdle
    /\ stIdle
    /\ ccIdle
    /\ outerIdle

\* a caller enters CreateChatCompletion: the attempt list is empty, the primary is first
StartRequest ==
    /\ pc \in {"idle", "done"}
    /\ nreq < MaxRequests
    /\ pc' = "gate"
    /\ idx' = 1
    /\ start' = now
    /\ attempts' = <<>>
    /\ callCount' = [i \in 1..Len(candidates) |-> 0]
    /\ retKind' = "none"
    /\ resp' = NoResponse
    /\ retErr' = NilError
    /\ retAttempts' = <<>>
    /\ nreq' = nreq + 1
    /\ streaming' = FALSE
    /\ canceled' = FALSE
    /\ hInvRecords' = 0
    /\ UNCHANGED <<now, caVars, clVars, pfVars, lvVars, cbVars, fpVars, stVars, ccVars>>

\* a chain that gives the primary a second try before it falls back
Continue_RetryPrimary(err, atts) ==
    LET d == Decide(idx, err, Len(candidates))
    IN  /\ pc' = IF d = "next" THEN "gate" ELSE "done"
        /\ idx' = IF d = "next" /\ Len(atts) > 1 THEN idx + 1 ELSE idx
        /\ retKind' = IF d = "next" THEN "none"
                      ELSE IF d = "return resp" THEN "resp"
                      ELSE IF d = "return err" THEN "error"
                      ELSE "FallbackError"
        /\ retErr' = IF d = "return err" THEN err
                     ELSE IF d = "FallbackError" THEN FallbackError(atts, err).LastError
                     ELSE NilError
        /\ retAttempts' = IF d = "FallbackError" THEN FallbackError(atts, err).Attempts
                          ELSE <<>>

\* CreateChatCompletion goes on after tryProvider returned err for candidate idx
\* with the attempt list atts
Continue(err, atts) ==
    LET d == Decide(idx, err, Len(candidates))
    IN  /\ pc' = IF d = "next" THEN "gate" ELSE "done"
        /\ idx' = IF d = "next" THEN idx + 1 ELSE idx
        /\ retKind' = IF d = "next" THEN "none"
                      ELSE IF d = "return resp" THEN "resp"
                      ELSE IF d = "return err" THEN "error"
                      ELSE "FallbackError"
        /\ retErr' = IF d = "return err" THEN err
                     ELSE IF d = "FallbackError" THEN FallbackError(atts, err).LastError
                     ELSE NilError
        /\ retAttempts' = IF d = "FallbackError" THEN FallbackError(atts, err).Attempts
                          ELSE <<>>

\* a tryProvider that keeps no record of a candidate it skips
Gate_SkipUnrecorded ==
    /\ pc = "gate"
    /\ LET providerName == candidates[idx]
           r == shouldTryProvider(circuitBreakers, cbEnabled, providerName, now)
       IN  /\ start' = now
           /\ circuitBreakers' = r.cbs
           /\ IF r.ok
              THEN /\ pc' = "call"
                   /\ UNCHANGED <<idx, attempts, retKind, retErr, retAttempts>>
              ELSE LET b == r.cbs[providerName]
                       err == NewCircuitOpenError(providerName, b.state, b.lastFailure,
                                  cbConfig.Timeout - Since(b.lastFailure, now))
                   IN  /\ attempts' = attempts
                       /\ Continue(err, attempts)
    /\ UNCHANGED <<now, outerVars, cbVars, fallbacks, cbEnabled, cbConfig, callCount, resp, nreq,
                   ctxVars, stVars, ccVars>>

\* tryProvider, first half: start the clock and ask the breaker; a candidate the
\* breaker rejects is recorded as skipped and never called
Gate ==
    /\ pc = "gate"
    /\ LET providerName == candidates[idx]
           r == shouldTryProvider(circuitBreakers, cbEnabled, providerName, now)
       IN  /\ start' = now
           /\ circuitBreakers' = r.cbs
           /\ IF r.ok
              THEN /\ pc' = "call"
                   /\ UNCHANGED <<idx, attempts, retKind, retErr, retAttempts>>
              ELSE LET b == r.cbs[providerName]
                       err == NewCircuitOpenError(providerName, b.state, b.lastFailure,
                                  cbConfig.Timeout - Since(b.lastFailure, now))
                       atts == Append(attempts,
                                  FallbackAttempt(providerName, err, Since(now, now), TRUE))
                   IN  /\ attempts' = atts
                       /\ Continue(err, atts)
    /\ UNCHANGED <<now, outerVars, cbVars, fallbacks, cbEnabled, cbConfig, callCount, resp, nreq,
                   ctxVars, stVars, ccVars>>

\* a tryProvider that stamps the attempt count before it appends the attempt
Call_CountBeforeAppend ==
    /\ pc = "call"
    /\ \E err \in CallOutcomes :
          LET providerName == candidates[idx]
              atts == Append(attempts,
                         FallbackAttempt(providerName, err, Since(start, now), FALSE))
          IN  /\ callCount' = [callCount EXCEPT ![idx] = @ + 1]
              /\ attempts' = atts
              /\ circuitBreakers' =
                    IF err.type = "nil"
                    THEN recordSuccess(circuitBreakers, cbEnabled, providerName, now)
                    ELSE recordFailure(circuitBreakers, cbEnabled, providerName, err, now)
              /\ resp' = IF err.type = "nil"
                         THEN [ID |-> providerName,
                               fallback_provider_used |-> providerName,
                               fallback_attempt_count |-> Len(attempts)]
                         ELSE resp
              /\ Continue(err, atts)
    /\ hInvRecords' = IF circuitBreakers' # circuitBreakers THEN 1 ELSE 0
    /\ UNCHANGED <<now, caVars, clVars, pfVars, lvVars, cbVars, fallbacks, cbEnabled, cbConfig,
                   start, nreq,
                   ctxVars, stVars, ccVars>>

\* tryProvider, second half: the provider's call returns; the attempt is
\* appended, the breaker is told, a response is stamped with its provenance
Call ==
    /\ pc = "call"
    /\ \E err \in CallOutcomes :
          LET providerName == candidates[idx]
              atts == Append(attempts,
                         FallbackAttempt(providerName, err, Since(start, now), FALSE))
          IN  /\ callCount' = [callCount EXCEPT ![idx] = @ + 1]
              /\ attempts' = atts
              /\ circuitBreakers' =
                    IF err.type = "nil"
                    THEN recordSuccess(circuitBreakers, cbEnabled, providerName, now)
                    ELSE recordFailure(circuitBreakers, cbEnabled, providerName, err, now)
              /\ resp' = IF err.type = "nil"
                         THEN [ID |-> providerName,
                               fallback_provider_used |-> providerName,
                               fallback_attempt_count |-> Len(atts)]
                         ELSE resp
              /\ Continue(err, atts)
    /\ hInvRecords' = IF circuitBreakers' # circuitBreakers THEN 1 ELSE 0
    /\ UNCHANGED <<now, caVars, clVars, pfVars, lvVars, cbVars, fallbacks, cbEnabled, cbConfig,
                   start, nreq,
                   ctxVars, stVars, ccVars>>

NextFB ==
    \/ Tick
    \/ StartRequest
    \/ Gate
    \/ Call

SpecFB == InitFB /\ [][NextFB]_vars

(***************************************************************************)
(* fallback.go: CreateChatCompletionStream and the stream it returns       *)
(***************************************************************************)
\* io.EOF: the one error whose Error() string is "EOF"
EOF == MkError("io.EOF", 0, "", {"eof"})

\* io.ErrUnexpectedEOF: "unexpected EOF"
ErrUnexpectedEOF == NewTextError({"eof"})

\* what the wrapped stream's Recv returns as its error: nil with a chunk, the end
\* of the stream, a Retryable error, a NonRetryable error
RecvOutcomes ==
    { NilError, EOF, ErrUnexpectedEOF, NewAPIError(401) }

\* a stream chain that goes on after a fallback's NonRetryable error
DecideStream_PastNonRetryable(i, err, n) ==
    IF err.type = "nil" THEN "return stream"
    ELSE IF i = 1
    THEN IF IsNonRetryableError(err) THEN "return err"
         ELSE IF n > 1 THEN "next" ELSE "FallbackError"
    ELSE IF i < n THEN "next" ELSE "FallbackError"

\* CreateChatCompletionStream's control flow once tryProviderStream has returned
\* err for candidate i of n
DecideStream(i, err, n) ==
    IF err.type = "nil" THEN "return stream"
    ELSE IF i = 1
    THEN IF IsNonRetryableError(err) THEN "return err"
         ELSE IF n > 1 THEN "next" ELSE "FallbackError"
    ELSE IF IsNonRetryableError(err) THEN "FallbackError"
         ELSE IF i < n THEN "next" ELSE "FallbackError"

\* a caller enters CreateChatCompletionStream
StartStream ==
    /\ pc \in {"idle", "done"}
    /\ nreq < MaxCalls
    /\ pc' = "sgate"
    /\ idx' = 1
    /\ start' = now
    /\ attempts' = <<>>
    /\ callCount' = [i \in 1..Len(candidates) |-> 0]
    /\ retKind' = "none"
    /\ resp' = NoResponse
    /\ retErr' = NilError
    /\ retAttempts' = <<>>
    /\ nreq' = nreq + 1
    /\ streaming' = TRUE
    /\ canceled' = FALSE
    /\ streamProvider' = ""
    /\ streamClosed' = FALSE
    /\ nrecv' = 0
    /\ hRecvErr' = NilError
    /\ hInvRecords' = 0
    /\ UNCHANGED <<now, caVars, clVars, pfVars, lvVars, cbVars, fpVars, ccVars>>

\* CreateChatCompletionStream goes on after tryProviderStream returned err for
\* candidate idx with the attempt list atts; a stream returned stays with the
\* caller ("streaming") until it is closed
ContinueStream(err, atts) ==
    LET d == DecideStream(idx, err, Len(candidates))
    IN  /\ pc' = IF d = "next" THEN "sgate"
                 ELSE IF d = "return stream" THEN "streaming"
                 ELSE "done"
        /\ idx' = IF d = "next" THEN idx + 1 ELSE idx
        /\ retKind' = IF d = "next" THEN "none"
                      ELSE IF d = "return stream" THEN "stream"
                      ELSE IF d = "return err" THEN "error"
                      ELSE "FallbackError"
        /\ retErr' = IF d = "return err" THEN err
                     ELSE IF d = "FallbackError" THEN FallbackError(atts, err).LastError
                     ELSE NilError
        /\ retAttempts' = IF d = "FallbackError" THEN FallbackError(atts, err).Attempts
                          ELSE <<>>

\* tryProviderStream, first half: as tryProvider's
GateStream ==
    /\ pc = "sgate"
    /\ LET providerName == candidates[idx]
           r == shouldTryProvider(circuitBreakers, cbEnabled, providerName, now)
       IN  /\ start' = now
           /\ circuitBreakers' = r.cbs
           /\ IF r.ok
              THEN /\ pc' = "scall"
                   /\ UNCHANGED <<idx, attempts, retKind, retErr, retAttempts>>
              ELSE LET b == r.cbs[providerName]
                       err == NewCircuitOpenError(providerName, b.state, b.lastFailure,
                                  cbConfig.Timeout - Since(b.lastFailure, now))
                       atts == Append(attempts,
                                  FallbackAttempt(providerName, err, Since(now, now), TRUE))
                   IN  /\ attempts' = atts
                       /\ ContinueStream(err, atts)
    /\ UNCHANGED <<now, outerVars, cbVars, fallbacks, cbEnabled, cbConfig, callCount, resp, nreq,
                   ctxVars, stVars, ccVars>>

\* tryProviderStream, second half: the provider's CreateChatCompletionStream
\* returns; the attempt is appended, the breaker is told (of a success as soon
\* as the stream is open), the stream is wrapped
CallStream ==
    /\ pc = "scall"
    /\ \E err \in CallOutcomes :
          LET providerName == candidates[idx]
              atts == Append(attempts,
                         FallbackAttempt(providerName, err, Since(start, now), FALSE))
          IN  /\ callCount' = [callCount EXCEPT ![idx] = @ + 1]
              /\ attempts' = atts
              /\ circuitBreakers' =
                    IF err.type = "nil"
                    THEN recordSuccess(circuitBreakers, cbEnabled, providerName, now)
                    ELSE recordFailure(circuitBreakers, cbEnabled, providerName, err, now)
              /\ streamProvider' = IF err.type = "nil" THEN providerName ELSE streamProvider
              /\ ContinueStream(err, atts)
    /\ hInvRecords' = IF circuitBreakers' # circuitBreakers THEN 1 ELSE 0
    /\ UNCHANGED <<now, caVars, clVars, pfVars, lvVars, cbVars, fallbacks, cbEnabled, cbConfig,
                   start, resp, nreq,
                   ctxVars, streamClosed, nrecv, hRecvErr, ccVars>>

\* a Recv that takes every message holding "EOF" for the end of the stream
Recv_EOFPattern(cbs, enabled, providerName, err, t0) ==
    IF err.type # "nil" /\ "eof" \notin err.text
    THEN recordFailure(cbs, enabled, providerName, err, t0)
    ELSE cbs

\* fallbackAwareStream.Recv: the breakers after the wrapped stream's Recv
\* returned err; err.Error() != "EOF" compares the message
Recv(cbs, enabled, providerName, err, t0) ==
    IF err.type # "nil" /\ err # EOF
    THEN recordFailure(cbs, enabled, providerName, err, t0)
    ELSE cbs

\* the caller reads from the stream it holds
StreamRecv ==
    /\ pc = "streaming"
    /\ nrecv < MaxRecv
    /\ \E err \in RecvOutcomes :
          /\ circuitBreakers' = Recv(circuitBreakers, cbEnabled, streamProvider, err, now)
          /\ hRecvErr' = err
    /\ nrecv' = nrecv + 1
    /\ hInvRecords' = IF circuitBreakers' # circuitBreakers
                      THEN hInvRecords + 1 ELSE hInvRecords
    /\ UNCHANGED <<now, caVars, clVars, pfVars, lvVars, cbVars, fallbacks, cbEnabled, cbConfig,
                   reqVars, ctxVars,
                   streamProvider, streamClosed, ccVars>>

\* fallbackAwareStream.Close: the caller is done with the stream
StreamClose ==
    /\ pc = "streaming"
    /\ streamClosed' = TRUE
    /\ pc' = "done"
    /\ UNCHANGED <<now, outerVars, cbVars, fpVars, idx, start, attempts, callCount, retKind, resp,
                   retErr, retAttempts, nreq, ctxVars, streamProvider, nrecv, hRecvErr,
                   ccVars>>

\* the caller cancels ctx while a provider call is in flight
Cancel ==
    /\ pc \in {"call", "scall"}
    /\ ~canceled
    /\ canceled' = TRUE
    /\ UNCHANGED <<now, outerVars, cbVars, fpVars, reqVars, streaming, stVars, ccVars>>

\* tryProvider as a whole, at the clock t0, for the provider whose call would
\* return out: the breakers and the attempt list after it, the error returned
tryProvider(cbs, providerName, out, atts, t0) ==
    LET r == shouldTryProvider(cbs, cbEnabled, providerName, t0)
    IN  IF ~r.ok
        THEN LET b == r.cbs[providerName]
                 err == NewCircuitOpenError(providerName, b.state, b.lastFailure,
                            cbConfig.Timeout - Since(b.lastFailure, t0))
             IN  [cbs |-> r.cbs, err |-> err,
                  attempts |-> Append(atts,
                                  FallbackAttempt(providerName, err, Since(t0, t0), TRUE))]
        ELSE [cbs |-> IF out.type = "nil"
                      THEN recordSuccess(r.cbs, cbEnabled, providerName, t0)
                      ELSE recordFailure(r.cbs, cbEnabled, providerName, out, t0),
              err |-> out,
              attempts |-> Append(atts,
                              FallbackAttempt(providerName, out, Since(t0, t0), FALSE))]

\* tryProviderStream as a whole, at the clock t0
tryProviderStream(cbs, providerName, out, atts, t0) ==
    LET r == shouldTryProvider(cbs, cbEnabled, providerName, t0)
    IN  IF ~r.ok
        THEN LET b == r.cbs[providerName]
                 err == NewCircuitOpenError(providerName, b.state, b.lastFailure,
                            cbConfig.Timeout - Since(b.lastFailure, t0))
             IN  [cbs |-> r.cbs, err |-> err,
                  attempts |-> Append(atts,
                                  FallbackAttempt(providerName, err, Since(t0, t0), TRUE))]
        ELSE [cbs |-> IF out.type = "nil"
                      THEN recordSuccess(r.cbs, cbEnabled, providerName, t0)
                      ELSE recordFailure(r.cbs, cbEnabled, providerName, out, t0),
              err |-> out,
              attempts |-> Append(atts,
                              FallbackAttempt(providerName, out, Since(t0, t0), FALSE))]

\* CreateChatCompletion from candidate i on, at the clock t0, when candidate
\* j's call would return outs[j]: how it returns, the error, the attempt list
\* and the breakers it leaves
RECURSIVE CreateChatCompletion(_, _, _, _, _)
CreateChatCompletion(i, cbs, atts, outs, t0) ==
    LET r == tryProvider(cbs, candidates[i], outs[i], atts, t0)
        d == Decide(i, r.err, Len(candidates))
    IN  IF d = "next"
        THEN CreateChatCompletion(i + 1, r.cbs, r.attempts, outs, t0)
        ELSE [ret |-> d, err |-> r.err, attempts |-> r.attempts, cbs |-> r.cbs]

\* CreateChatCompletionStream from candidate i on, likewise
RECURSIVE CreateChatCompletionStream(_, _, _, _, _)
CreateChatCompletionStream(i, cbs, atts, outs, t0) ==
    LET r == tryProviderStream(cbs, candidates[i], outs[i], atts, t0)
        d == DecideStream(i, r.err, Len(candidates))
    IN  IF d = "next"
        THEN CreateChatCompletionStream(i + 1, r.cbs, r.attempts, outs, t0)
        ELSE [ret |-> d, err |-> r.err, attempts |-> r.attempts, cbs |-> r.cbs]

\* what each candidate's call would return, for every candidate
OutcomeVectors == [1..Len(candidates) -> ProviderOutcomes]

\* a request served as a whole: r is what the chain returned
Served(r, stream) ==
    /\ pc \in {"idle", "done"}
    /\ nreq < MaxServed
    /\ nreq' = nreq + 1
    /\ pc' = "done"
    /\ idx' = Len(r.attempts)
    /\ start' = now
    /\ attempts' = r.attempts
    /\ callCount' = [i \in 1..Len(candidates) |->
                        IF i <= Len(r.attempts) /\ ~r.attempts[i].Skipped THEN 1 ELSE 0]
    /\ circuitBreakers' = r.cbs
    /\ retKind' = IF r.ret = "return resp" THEN "resp"
                  ELSE IF r.ret = "return stream" THEN "stream"
                  ELSE IF r.ret = "return err" THEN "error"
                  ELSE "FallbackError"
    /\ retErr' = IF r.ret \in {"return err", "FallbackError"} THEN r.err ELSE NilError
    /\ retAttempts' = IF r.ret = "FallbackError" THEN r.attempts ELSE <<>>
    /\ resp' = IF r.ret = "return resp"
               THEN [ID |-> r.attempts[Len(r.attempts)].Provider,
                     fallback_provider_used |-> r.attempts[Len(r.attempts)].Provider,
                     fallback_attempt_count |-> Len(r.attempts)]
               ELSE NoResponse
    /\ streaming' = stream
    /\ canceled' = FALSE
    /\ UNCHANGED <<now, outerVars, cbVars, fallbacks, cbEnabled, cbConfig, stVars, ccVars>>

\* a CreateChatCompletion call, from entry to return
ServeCompletion ==
    \E outs \in OutcomeVectors :
        Served(CreateChatCompletion(1, circuitBreakers, <<>>, outs, now), FALSE)

\* a CreateChatCompletionStream call, from entry to return
ServeStream ==
    \E outs \in OutcomeVectors :
        Served(CreateChatCompletionStream(1, circuitBreakers, <<>>, outs, now), TRUE)

InitEQ == InitFB

NextEQ ==
    \/ Tick
    \/ ServeCompletion
    \/ ServeStream

SpecEQ == InitEQ /\ [][NextEQ]_vars

\* time passes between two requests; a request of this specification is
\* served within one tick of the clock
TickBetween ==
    /\ pc \in {"idle", "done"}
    /\ Tick

\* a caller enters CreateChatCompletion of the orchestrator that also streams
StartCompletion ==
    /\ nreq < MaxCalls
    /\ StartRequest

InitST == InitFB

NextST ==
    \/ TickBetween
    \/ StartCompletion
    \/ Gate
    \/ Call
    \/ StartStream
    \/ GateStream
    \/ CallStream
    \/ StreamRecv
    \/ StreamClose
    \/ Cancel

SpecST == InitST /\ [][NextST]_vars

(***************************************************************************)
(* circuitbreaker.go: one breaker called from several goroutines           *)
(*                                                                         *)
(* Every method takes cb.mu first (Lock for the four that write, RLock for *)
(* State and Stats) and releases it on return.  A method that writes reads *)
(* the fields (CCLoad) and writes them back (CCStore) in two steps, and    *)
(* Stats reads the fields in two steps, so that what the lock buys shows.  *)
(***************************************************************************)
Goroutines == {1, 2}

Writers == {"AllowRequest", "RecordSuccess", "RecordFailure", "Reset"}
Readers == {"State", "Stats"}

\* the config of the breaker the goroutines share
\* (TestCircuitBreaker_TransitionsToHalfOpen: thresholds 2 and 2, a short
\* timeout, the other fields left zero)
CCConfigs == { CircuitBreakerConfig(2, 2, 1, Rate(0, 1), 0) }

\* a write lock that excludes nobody
canLock_NoExclusion(m) == TRUE

\* cb.mu.Lock() can return: no writer and no reader holds the mutex
canLock(m) == m.writer = 0 /\ m.readers = {}

\* cb.mu.RLock() can return: no writer holds the mutex
canRLock(m) == m.writer = 0

\* the CircuitBreakerStats built from the counters read for the failure rate
\* (b1) and the fields read for the struct literal (b2)
StatsOf(b1, b2) ==
    [State |-> b2.state,
     ConsecutiveFailures |-> b2.consecutiveFailures,
     ConsecutiveSuccesses |-> b2.consecutiveSuccesses,
     TotalRequests |-> b2.totalRequests,
     TotalFailures |-> b2.totalFailures,
     FailureRate |-> IF b1.totalRequests > 0
                     THEN Rate(b1.totalFailures, b1.totalRequests)
                     ELSE Rate(0, 1),
     LastFailure |-> b2.lastFailure,
     LastStateChange |-> b2.lastStateChange]

\* Stats
Stats(b) == StatsOf(b, b)

\* State
State(b) == b.state

\* the fields a goroutine holds outside a call: none it will use
NoFields == NewCircuitBreaker(DefaultCircuitBreakerConfig, ZeroTime)

\* what a call returns: a bool (AllowRequest), a CircuitState (State), a
\* CircuitBreakerStats (Stats), nothing
NoReturn == [ok |-> FALSE, state |-> "", stats |-> Stats(NoFields)]

\* the breaker after a writing method has run on b at the clock t0
Apply(method, b, t0) ==
    IF method = "AllowRequest" THEN AllowRequest(b, t0).cb
    ELSE IF method = "RecordSuccess" THEN RecordSuccess(b, t0)
    ELSE IF method = "RecordFailure" THEN RecordFailure(b, t0)
    ELSE Reset(b, t0)

\* what the writing method returns
Returned(method, b, t0) ==
    IF method = "AllowRequest"
    THEN [NoReturn EXCEPT !.ok = AllowRequest(b, t0).ok]
    ELSE NoReturn

InitCC ==
    /\ now = 0
    /\ \E config \in CCConfigs : cb = NewCircuitBreaker(config, 0)
    /\ hLastOp = "NewCircuitBreaker"
    /\ hRet = TRUE
    /\ hPrevState = CircuitClosed
    /\ hFailStreak = 0
    /\ hRecords = 0
    /\ hFailures = 0
    /\ hProbeSuccesses = 0
    /\ hAdmitted = 0
    /\ hLastFailAt = ZeroTime
    /\ fpIdle
    /\ reqIdle
    /\ stIdle
    /\ mu = [writer |-> 0, readers |-> {}]
    /\ tpc = [g \in Goroutines |-> "idle"]
    /\ top = [g \in Goroutines |-> ""]
    /\ tloc = [g \in Goroutines |-> NoFields]
    /\ tret = [g \in Goroutines |-> NoReturn]
    /\ lin = cb
    /\ ncalls = 0
    /\ outerIdle

hVars == <<hLastOp, hRet, hPrevState, hFailStreak, hRecords, hFailures,
           hProbeSuccesses, hAdmitted, hLastFailAt>>

\* goroutine g calls a method of the breaker
CCCall(g) ==
    /\ tpc[g] = "idle"
    /\ ncalls < MaxConcurrentCalls
    /\ \E method \in Writers \cup Readers : top' = [top EXCEPT ![g] = method]
    /\ tpc' = [tpc EXCEPT ![g] = "entered"]
    /\ ncalls' = ncalls + 1
    /\ UNCHANGED <<now, outerVars, cbVars, fpVars, reqVars, ctxVars, stVars, mu, tloc, tret, lin>>

\* cb.mu.Lock() returns in g
CCLock(g) ==
    /\ tpc[g] = "entered"
    /\ top[g] \in Writers
    /\ canLock(mu)
    /\ mu' = [mu EXCEPT !.writer = g]
    /\ tpc' = [tpc EXCEPT ![g] = "locked"]
    /\ UNCHANGED <<now, outerVars, cbVars, fpVars, reqVars, ctxVars, stVars, top, tloc, tret, lin,
                   ncalls>>

\* g reads the fields its method works on
CCLoad(g) ==
    /\ tpc[g] = "locked"
    /\ tloc' = [tloc EXCEPT ![g] = cb]
    /\ tpc' = [tpc EXCEPT ![g] = "loaded"]
    /\ UNCHANGED <<now, outerVars, cbVars, fpVars, reqVars, ctxVars, stVars, mu, top, tret, lin,
                   ncalls>>

\* g writes the fields back, returns, and the deferred Unlock runs
CCStore(g) ==
    /\ tpc[g] = "loaded"
    /\ cb' = Apply(top[g], tloc[g], now)
    /\ tret' = [tret EXCEPT ![g] = Returned(top[g], tloc[g], now)]
    /\ lin' = Apply(top[g], lin, now)
    /\ mu' = [mu EXCEPT !.writer = 0]
    /\ tpc' = [tpc EXCEPT ![g] = "idle"]
    /\ tloc' = [tloc EXCEPT ![g] = NoFields]
    /\ UNCHANGED <<now, outerVars, hVars, fpVars, reqVars, ctxVars, stVars, top, ncalls>>

\* cb.mu.RLock() returns in g
CCRLock(g) ==
    /\ tpc[g] = "entered"
    /\ top[g] \in Readers
    /\ canRLock(mu)
    /\ mu' = [mu EXCEPT !.readers = @ \cup {g}]
    /\ tpc' = [tpc EXCEPT ![g] = "rlocked"]
    /\ UNCHANGED <<now, outerVars, cbVars, fpVars, reqVars, ctxVars, stVars, top, tloc, tret, lin,
                   ncalls>>

\* State in g: read cb.state, return, RUnlock
CCState(g) ==
    /\ tpc[g] = "rlocked"
    /\ top[g] = "State"
    /\ tret' = [tret EXCEPT ![g] = [NoReturn EXCEPT !.state = State(cb)]]
    /\ mu' = [mu EXCEPT !.readers = @ \ {g}]
    /\ tpc' = [tpc EXCEPT ![g] = "idle"]
    /\ UNCHANGED <<now, outerVars, cbVars, fpVars, reqVars, ctxVars, stVars, top, tloc, lin, ncalls>>

\* Stats in g, first half: the counters are read for the failure rate
CCStatsRate(g) ==
    /\ tpc[g] = "rlocked"
    /\ top[g] = "Stats"
    /\ tloc' = [tloc EXCEPT ![g] = cb]
    /\ tpc' = [tpc EXCEPT ![g] = "rated"]
    /\ UNCHANGED <<now, outerVars, cbVars, fpVars, reqVars, ctxVars, stVars, mu, top, tret, lin,
                   ncalls>>

\* Stats in g, second half: the struct is built, returned, RUnlock
CCStats(g) ==
    /\ tpc[g] = "rated"
    /\ tret' = [tret EXCEPT ![g] = [NoReturn EXCEPT !.stats = StatsOf(tloc[g], cb)]]
    /\ mu' = [mu EXCEPT !.readers = @ \ {g}]
    /\ tpc' = [tpc EXCEPT ![g] = "idle"]
    /\ tloc' = [tloc EXCEPT ![g] = NoFields]
    /\ UNCHANGED <<now, outerVars, cbVars, fpVars, reqVars, ctxVars, stVars, top, lin, ncalls>>

NextCC ==
    \/ Tick
    \/ \E g \in Goroutines : CCCall(g)
    \/ \E g \in Goroutines : CCLock(g)
    \/ \E g \in Goroutines : CCLoad(g)
    \/ \E g \in Goroutines : CCStore(g)
    \/ \E g \in Goroutines : CCRLock(g)
    \/ \E g \in Goroutines : CCState(g)
    \/ \E g \in Goroutines : CCStatsRate(g)
    \/ \E g \in Goroutines : CCStats(g)

SpecCC == InitCC /\ [][NextCC]_vars

(***************************************************************************)
(* Properties of the circuit breaker (checked under SpecCB)                *)
(***************************************************************************)

\* C1: whenever a RecordFailure is the FailureThreshold-th in a row (no
\* RecordSuccess and no Reset since the streak began), the breaker is Open when
\* it returns; and an AllowRequest that is the next call after it, made before
\* Timeout has elapsed since that failure, returns false.
C1_OpensAtFailureThreshold ==
    [][ /\ (CBRecordFailure /\ hFailStreak' = cb.config.FailureThreshold)
            => cb'.state = CircuitOpen
        /\ (/\ CBAllowRequest
            /\ hLastOp = "RecordFailure"
            /\ hFailStreak = cb.config.FailureThreshold
            /\ Since(hLastFailAt, now) < cb.config.Timeout)
            => (hRet' = FALSE /\ cb'.state = CircuitOpen) ]_vars

\* a breaker that took exactly FailureThreshold records, all failures, is Open
\* and has just rejected a request
C1_Witness ==
    /\ hLastOp = "AllowRequest"
    /\ hRet = FALSE
    /\ hPrevState = CircuitOpen
    /\ cb.state = CircuitOpen
    /\ hFailStreak = cb.config.FailureThreshold
    /\ hRecords = cb.config.FailureThreshold

\* C2: an AllowRequest on an Open breaker returns false and leaves it Open when
\* less than Timeout has elapsed since the last recorded failure; made at or
\* after that moment it moves the breaker to HalfOpen and returns true (so it is
\* the first such call: the breaker is no longer Open afterwards).
C2_OpenUntilTimeout ==
    [][ (CBAllowRequest /\ cb.state = CircuitOpen)
            => IF Since(hLastFailAt, now) < cb.config.Timeout
               THEN hRet' = FALSE /\ cb'.state = CircuitOpen
               ELSE hRet' = TRUE /\ cb'.state = CircuitHalfOpen ]_vars

\* an AllowRequest made exactly Timeout after the last failure has just moved
\* the breaker from Open to HalfOpen
C2_Witness ==
    /\ hLastOp = "AllowRequest"
    /\ hPrevState = CircuitOpen
    /\ cb.state = CircuitHalfOpen
    /\ hRet = TRUE
    /\ Since(hLastFailAt, now) = cb.config.Timeout

\* C3: a RecordSuccess on a HalfOpen breaker closes it exactly when it is the
\* SuccessThreshold-th success of that half-open period; after fewer successes
\* the breaker is still HalfOpen.
C3_ClosesAtSuccessThreshold ==
    [][ (CBRecordSuccess /\ cb.state = CircuitHalfOpen)
            => IF hProbeSuccesses' = cb.config.SuccessThreshold
               THEN cb'.state = CircuitClosed
               ELSE /\ cb'.state = CircuitHalfOpen
                    /\ hProbeSuccesses' < cb.config.SuccessThreshold ]_vars

\* the second of two successes has just closed a half-open breaker
C3_Witness ==
    /\ hLastOp = "RecordSuccess"
    /\ hPrevState = CircuitHalfOpen
    /\ cb.state = CircuitClosed
    /\ hProbeSuccesses = cb.config.SuccessThreshold
    /\ cb.config.SuccessThreshold >= 2

\* C4: after a RecordFailure on a HalfOpen breaker the breaker is Open, whatever
\* the number of successes recorded in that half-open period.
C4_HalfOpenFailureReopens ==
    (hLastOp = "RecordFailure" /\ hPrevState = CircuitHalfOpen)
        => cb.state = CircuitOpen

\* a failure has just reopened a half-open breaker that had recorded a success
C4_Witness ==
    /\ hLastOp = "RecordFailure"
    /\ hPrevState = CircuitHalfOpen
    /\ cb.state = CircuitOpen
    /\ hProbeSuccesses >= 1

\* C5: take a Closed breaker whose records since it was built, reset or closed
\* are k successes followed by failures, fewer failures than FailureThreshold.
\* A record opens it if and only if it brings the totals to
\* requests >= MinimumRequests with failures/requests >= FailureRateThreshold;
\* every earlier record leaves it Closed.
C5_OpensAtFailureRate ==
    [][ (/\ CBRecordSuccess \/ CBRecordFailure
         /\ cb.state = CircuitClosed
         /\ hFailures' = hFailStreak'
         /\ hFailStreak' < cb.config.FailureThreshold)
            => /\ cb'.state \in {CircuitClosed, CircuitOpen}
               /\ cb'.state = CircuitOpen
                    <=> /\ hRecords' >= cb.config.MinimumRequests
                        /\ hFailures' * cb.config.FailureRateThreshold.den
                             >= cb.config.FailureRateThreshold.num * hRecords' ]_vars

\* 5 successes then 5 failures, threshold 0.5, minimum 10: the 10th record has
\* just opened the breaker
C5_Witness ==
    /\ hLastOp = "RecordFailure"
    /\ hPrevState = CircuitClosed
    /\ cb.state = CircuitOpen
    /\ cb.config.MinimumRequests = 10
    /\ cb.config.FailureRateThreshold = Rate(1, 2)
    /\ cb.config.FailureThreshold > 5
    /\ hRecords = 10
    /\ hFailures = 5
    /\ hFailStreak = 5

(***************************************************************************)
(* Properties of the fallback chain (checked under SpecFB)                 *)
(***************************************************************************)
\* the attempt appended last
LastAttempt == attempts[Len(attempts)]

\* the breaker consulted for the current candidate rejects a request made now:
\* it is Open and its Timeout has not elapsed since its last failure
GateShut ==
    /\ cbEnabled
    /\ candidates[idx] \in DOMAIN circuitBreakers
    /\ circuitBreakers[candidates[idx]].state = CircuitOpen
    /\ Since(circuitBreakers[candidates[idx]].lastFailure, now)
          < circuitBreakers[candidates[idx]].config.Timeout

\* C6: when a candidate's call succeeds, CreateChatCompletion returns that
\* candidate's response at once, without error, and every later candidate has
\* call count zero for the request (every fallback, when the primary succeeds).
C6_SuccessStopsChain ==
    [][ (Call /\ LastAttempt'.Error = NilError)
            => /\ pc' = "done"
               /\ retKind' = "resp"
               /\ retErr' = NilError
               /\ resp'.ID = candidates[idx]
               /\ \A j \in (idx + 1)..Len(candidates) : callCount'[j] = 0 ]_vars

\* the primary served a request of a chain with two fallbacks; neither was called
C6_Witness ==
    /\ pc = "done"
    /\ retKind = "resp"
    /\ Len(candidates) = 3
    /\ resp.ID = Primary
    /\ callCount = <<1, 0, 0>>

\* C7: when a candidate's call fails with an error classified Retryable or
\* Unknown and a next candidate exists, that candidate is tried next; and when a
\* candidate tried after such a failure is called and succeeds, it has been
\* called exactly once and the request returns its response without error.
C7_FallbackOnRetryable ==
    [][ /\ (/\ Call
            /\ LastAttempt'.Error # NilError
            /\ ClassifyError(LastAttempt'.Error)
                  \in {ErrorCategoryRetryable, ErrorCategoryUnknown}
            /\ idx < Len(candidates))
            => (pc' = "gate" /\ idx' = idx + 1)
        /\ (/\ Call
            /\ idx > 1
            /\ ~attempts[idx - 1].Skipped
            /\ ClassifyError(attempts[idx - 1].Error)
                  \in {ErrorCategoryRetryable, ErrorCategoryUnknown}
            /\ LastAttempt'.Error = NilError)
            => /\ callCount'[idx] = 1
               /\ pc' = "done"
               /\ retKind' = "resp"
               /\ resp'.ID = candidates[idx]
               /\ retErr' = NilError ]_vars

\* the primary failed with an Unknown error and the first fallback, called once,
\* served the request
C7_Witness ==
    /\ pc = "done"
    /\ retKind = "resp"
    /\ Len(attempts) = 2
    /\ ~attempts[1].Skipped
    /\ ClassifyError(attempts[1].Error) = ErrorCategoryUnknown
    /\ callCount[1] = 1
    /\ callCount[2] = 1
    /\ resp.ID = candidates[2]

\* C8: when a candidate's call fails with an error classified NonRetryable the
\* request ends there with no later candidate called; when that candidate is the
\* primary, the error returned is the provider's own error.
C8_NonRetryableStopsChain ==
    [][ (/\ Call
         /\ LastAttempt'.Error # NilError
         /\ ClassifyError(LastAttempt'.Error) = ErrorCategoryNonRetryable)
            => /\ pc' = "done"
               /\ retKind' \in {"error", "FallbackError"}
               /\ \A j \in (idx + 1)..Len(candidates) : callCount'[j] = 0
               /\ idx = 1 => (retKind' = "error" /\ retErr' = LastAttempt'.Error) ]_vars

\* the primary answered 401: the request returned that error and no fallback was called
C8_Witness ==
    /\ pc = "done"
    /\ retKind = "error"
    /\ retErr = NewAPIError(401)
    /\ Len(candidates) = 3
    /\ callCount = <<1, 0, 0>>

C10_AlwaysFallbackError ==
    (pc = "done" /\ retKind # "resp")
        => /\ retKind = "FallbackError"
           /\ retAttempts = attempts
           /\ retErr = LastAttempt.Error

\* C10, amended: whenever CreateChatCompletion returns without success, either
\* the primary's call failed with a NonRetryable error and that error is
\* returned as it is, or the error is a FallbackError carrying the full ordered
\* attempt list (one attempt per candidate considered, in order) whose LastError
\* is the error of the last attempt.
C10_FallbackErrorUnlessPrimaryNonRetryable ==
    (pc = "done" /\ retKind # "resp")
        => IF /\ Len(attempts) = 1
              /\ ~attempts[1].Skipped
              /\ IsNonRetryableError(attempts[1].Error)
           THEN retKind = "error" /\ retErr = attempts[1].Error
           ELSE /\ retKind = "FallbackError"
                /\ retAttempts = attempts
                /\ Len(attempts) >= 1
                /\ \A k \in 1..Len(attempts) : attempts[k].Provider = candidates[k]
                /\ retErr = LastAttempt.Error

\* a fallback's NonRetryable failure stopped the chain after a Retryable failure
\* of the primary: a FallbackError with both attempts was returned
C10_Witness ==
    /\ pc = "done"
    /\ retKind = "FallbackError"
    /\ Len(candidates) = 3
    /\ Len(retAttempts) = 2
    /\ ClassifyError(retAttempts[1].Error) = ErrorCategoryRetryable
    /\ ClassifyError(retAttempts[2].Error) = ErrorCategoryNonRetryable
    /\ retErr = retAttempts[2].Error

\* the call that has just returned was recorded as a failure on the breaker of
\* provider p
FailureRecorded(p) ==
    /\ cbEnabled
    /\ circuitBreakers'[p].totalFailures = circuitBreakers[p].totalFailures + 1

\* C13, as the specification words it: a failed provider call is recorded as
\* a failure on that provider's breaker only if its error is classified
\* Retryable.
C13_RecordedOnlyIfRetryable ==
    [][(Call /\ FailureRecorded(candidates[idx]))
          => ClassifyError(LastAttempt'.Error) = ErrorCategoryRetryable]_vars

\* C13, amended: a provider call is recorded as a failure on that provider's
\* breaker only if it failed and its error is classified Retryable or Unknown,
\* that is, anything but NonRetryable.
C13_RecordedOnlyIfRetryableOrUnknown ==
    [][(Call /\ FailureRecorded(candidates[idx]))
          => /\ LastAttempt'.Error.type # "nil"
             /\ ClassifyError(LastAttempt'.Error)
                    \in {ErrorCategoryRetryable, ErrorCategoryUnknown}]_vars

\* the first request's call to the primary failed with an Unknown error and
\* the primary's breaker counts one failure
C13_Witness ==
    /\ cbEnabled
    /\ nreq = 1
    /\ Len(attempts) >= 1
    /\ attempts[1].Error = NewTextError({})
    /\ ClassifyError(attempts[1].Error) = ErrorCategoryUnknown
    /\ circuitBreakers[Primary].totalFailures = 1
    /\ circuitBreakers[Primary].consecutiveFailures = 1

\* C14: a provider call that fails with a NonRetryable error leaves the
\* breaker of that provider, and every other breaker, as it was: state and all
\* counters; NonRetryable failures alone never open a circuit.
C14_NonRetryableLeavesBreaker ==
    [][(Call /\ IsNonRetryableError(LastAttempt'.Error))
          => circuitBreakers' = circuitBreakers]_vars

\* three requests in a row failed at the primary with a NonRetryable error,
\* more than the failure threshold, and its breaker is closed with no record
C14_Witness ==
    /\ cbEnabled
    /\ nreq = 3
    /\ pc = "done"
    /\ retKind = "error"
    /\ IsNonRetryableError(retErr)
    /\ cbConfig.FailureThreshold < 3
    /\ circuitBreakers[Primary].state = CircuitClosed
    /\ circuitBreakers[Primary].totalRequests = 0
    /\ circuitBreakers[Primary].lastFailure = ZeroTime
    /\ circuitBreakers[Primary].lastStateChange = 0

\* C18: a response CreateChatCompletion returns through the orchestrator
\* names, as fallback_provider_used, the provider whose call produced it, and
\* carries, as fallback_attempt_count, the number of attempt records made up
\* to and including that call, skipped candidates counted: 1 when the primary
\* serves the request.
C18_ResponseProvenance ==
    (pc = "done" /\ retKind = "resp")
       => /\ ~LastAttempt.Skipped
          /\ LastAttempt.Error = NilError
          /\ resp.ID = LastAttempt.Provider
          /\ resp.fallback_provider_used = resp.ID
          /\ resp.fallback_provider_used = candidates[idx]
          /\ resp.fallback_attempt_count = Len(attempts)
          /\ resp.fallback_attempt_count = idx
          /\ resp.fallback_provider_used = Primary => resp.fallback_attempt_count = 1

\* the second fallback served the request after the primary was skipped and
\* the first fallback failed: the count is 3
C18_Witness ==
    /\ pc = "done"
    /\ retKind = "resp"
    /\ resp.fallback_provider_used = "fallback2"
    /\ resp.fallback_attempt_count = 3
    /\ attempts[1].Skipped
    /\ ~attempts[2].Skipped

\* the candidates a request has considered so far: those before the one in
\* hand, and the one in hand once tryProvider has returned for it
Considered == IF pc \in {"gate", "call"} THEN idx - 1 ELSE idx

\* C19: the attempt list of a request holds exactly one record per candidate
\* considered, in the order considered, a candidate skipped because of an
\* open circuit included (its record says Skipped, a called candidate's does
\* not), and is never longer than 1 + the number of fallback providers.
C19_OneAttemptPerCandidate ==
    /\ Len(attempts) = Considered
    /\ Len(attempts) <= 1 + Len(fallbacks)
    /\ \A k \in 1..Len(attempts) :
          /\ attempts[k].Provider = candidates[k]
          /\ attempts[k].Skipped <=> callCount[k] = 0
          /\ attempts[k].Skipped <=> attempts[k].Error.type = "CircuitOpenError"
    /\ retKind = "FallbackError" => retAttempts = attempts

\* every candidate of a three-provider chain was considered: the primary was
\* skipped, both fallbacks failed, the list has three records
C19_Witness ==
    /\ pc = "done"
    /\ retKind = "FallbackError"
    /\ Len(fallbacks) = 2
    /\ Len(attempts) = 3
    /\ attempts[1].Skipped
    /\ ~attempts[2].Skipped
    /\ ~attempts[3].Skipped

(***************************************************************************)
(* Properties of the orchestrator that also streams (checked under SpecST, *)
(* C15 under SpecEQ)                                                       *)
(***************************************************************************)
\* a request is between its entry and its return
InFlight == pc \in {"gate", "call", "sgate", "scall"}

\* a provider call is in flight
Calling == pc \in {"call", "scall"}

\* C11: within one CreateChatCompletion or CreateChatCompletionStream call
\* the candidates are taken in the order primary, first fallback, second
\* fallback, one at a time: the candidate in hand is the one after those that
\* already have their attempt record, no provider is called twice, and a
\* provider is called only once every candidate before it has been dealt with.
C11_InOrderAtMostOnce ==
    /\ \A j \in DOMAIN callCount : callCount[j] <= 1
    /\ \A k \in 1..Len(attempts) : attempts[k].Provider = candidates[k]
    /\ InFlight => Len(attempts) = idx - 1
    /\ ~InFlight => Len(attempts) = idx
    /\ \A j \in DOMAIN callCount :
          callCount[j] = 1 => /\ j <= Len(attempts)
                              /\ ~attempts[j].Skipped
    /\ Calling => callCount[idx] = 0

\* a streaming request has called the primary and both fallbacks, each once
C11_Witness ==
    /\ streaming
    /\ pc = "streaming"
    /\ callCount = <<1, 1, 1>>
    /\ streamProvider = "fallback2"

\* C12: once the request's ctx is canceled while a provider call is in flight
\* and that call returns the cancellation error, the request ends there: no
\* further candidate is taken up.
C12_CanceledCallEndsRequest ==
    [][((Call \/ CallStream) /\ canceled /\ LastAttempt'.Error = ContextCanceled)
          => pc' = "done"]_vars

\* how a request returned, whatever carries the success
KindOf(ret) == IF ret \in {"return resp", "return stream"} THEN "success" ELSE ret

\* C15: from the same breakers, at the same time, with the same outcome of
\* each provider's call, CreateChatCompletionStream and CreateChatCompletion
\* leave the same attempt list (the same providers called or skipped, in the
\* same order, stopping at the same candidate), the same breakers (the same
\* successes and failures recorded) and return the same way with the same error.
C15_StreamSameDecisionTree ==
    \A outs \in OutcomeVectors :
        LET c == CreateChatCompletion(1, circuitBreakers, <<>>, outs, now)
            st == CreateChatCompletionStream(1, circuitBreakers, <<>>, outs, now)
        IN  /\ st.attempts = c.attempts
            /\ st.cbs = c.cbs
            /\ st.err = c.err
            /\ KindOf(st.ret) = KindOf(c.ret)

\* a streaming request fell back and ended in a FallbackError on the first
\* fallback's NonRetryable error; from the breakers it left, the stream chain
\* would skip the primary, whose circuit is open, and end the same way
C15_Witness ==
    /\ streaming
    /\ pc = "done"
    /\ retKind = "FallbackError"
    /\ Len(attempts) = 2
    /\ Len(candidates) = 3
    /\ IsNonRetryableError(retErr)
    /\ \E outs \in OutcomeVectors :
          LET st == CreateChatCompletionStream(1, circuitBreakers, <<>>, outs, now)
          IN  /\ st.ret = "FallbackError"
              /\ st.attempts[1].Skipped
              /\ Len(st.attempts) = 2
              /\ IsNonRetryableError(st.err)

\* C16, as the specification words it: on a stream returned by
\* CreateChatCompletionStream, every Recv error other than the end of the
\* stream is recorded as a failure on the breaker of the provider serving the
\* stream, and the end of the stream (like a chunk) records nothing.
C16_EveryRecvErrorRecorded ==
    [][(StreamRecv /\ cbEnabled)
          => IF hRecvErr'.type # "nil" /\ hRecvErr' # EOF
             THEN FailureRecorded(streamProvider)
             ELSE circuitBreakers' = circuitBreakers]_vars

\* C16, amended: a Recv error other than the end of the stream is recorded as
\* a failure on the serving provider's breaker when it is classified Retryable
\* or Unknown; a NonRetryable Recv error, the end of the stream and a chunk
\* leave every breaker as it was.
C16_RecvErrorRecordedUnlessNonRetryable ==
    [][(StreamRecv /\ cbEnabled)
          => IF /\ hRecvErr'.type # "nil"
                /\ hRecvErr' # EOF
                /\ ~IsNonRetryableError(hRecvErr')
             THEN /\ FailureRecorded(streamProvider)
                  /\ \A p \in DOMAIN circuitBreakers \ {streamProvider} :
                        circuitBreakers'[p] = circuitBreakers[p]
             ELSE circuitBreakers' = circuitBreakers]_vars

\* the first Recv on a stream served by the first fallback returned
\* "unexpected EOF", an error that is not the end of the stream, and the
\* fallback's breaker counts the failure after the success of the opening
C16_Witness ==
    /\ cbEnabled
    /\ pc = "streaming"
    /\ streamProvider = "fallback1"
    /\ nrecv = 1
    /\ hRecvErr = ErrUnexpectedEOF
    /\ circuitBreakers["fallback1"].totalRequests = 2
    /\ circuitBreakers["fallback1"].totalFailures = 1
    /\ circuitBreakers["fallback1"].consecutiveFailures = 1

\* C17: for a streaming call, opening the stream records no success on the
\* serving provider's breaker: when tryProviderStream returns the stream, that
\* breaker is as the gate left it.
C17_OpeningRecordsNoSuccess ==
    [][(CallStream /\ cbEnabled /\ pc' = "streaming")
          => circuitBreakers'[streamProvider'] = circuitBreakers[streamProvider']]_vars

(***************************************************************************)
(* Properties of the breaker under concurrent calls (checked under SpecCC) *)
(***************************************************************************)
\* C20: under any interleaving of AllowRequest, RecordSuccess, RecordFailure,
\* Reset, State and Stats calls on one breaker, each call takes effect at one
\* instant: a writing call leaves the breaker its method gives when run whole
\* on the breaker of that instant, and returns what it returns there, so that
\* the breaker always is what the calls give in the order they wrote (lin: no
\* increment is lost); State returns the state and Stats the complete
\* snapshot of the breaker of one instant between whole calls.
C20_CallsAtomic ==
    [][/\ cb' = lin'
       /\ \A g \in Goroutines :
             /\ CCStore(g) => /\ cb' = Apply(top[g], cb, now)
                              /\ tret'[g] = Returned(top[g], lin, now)
             /\ CCState(g) => tret'[g].state = State(lin)
             /\ CCStats(g) => tret'[g].stats = Stats(lin)]_vars

\* one goroutine is in the middle of RecordFailure and holds the lock, the
\* other has called RecordFailure and waits for it; the waiting one has taken
\* a Stats snapshot that shows the one failure recorded before
C20_Witness ==
    /\ tpc[1] = "loaded"
    /\ top[1] = "RecordFailure"
    /\ mu.writer = 1
    /\ tpc[2] = "entered"
    /\ top[2] = "RecordFailure"
    /\ cb.totalFailures = 1
    /\ tret[2].stats.TotalFailures = 1
    /\ tret[2].stats.FailureRate = Rate(1, 1)

(***************************************************************************)
(* More properties of the circuit breaker (checked under SpecCB)           *)
(***************************************************************************)
\* C21: right after every state transition of the breaker (Closed to Open,
\* Open to HalfOpen, HalfOpen to Closed, HalfOpen to Open) the
\* consecutive-failure counter and the consecutive-success counter are both
\* zero.
C21_TransitionZeroesStreaks ==
    [][(cb'.state # cb.state /\ hLastOp' # "Reset")
          => /\ cb'.consecutiveFailures = 0
             /\ cb'.consecutiveSuccesses = 0]_vars

\* C22: Reset, called in any state, leaves the breaker Closed with the
\* consecutive-failure, consecutive-success, total-request and total-failure
\* counters zero, and an AllowRequest made next returns true.
C22_ResetClosesAndZeroes ==
    [][/\ CBReset => /\ cb'.state = CircuitClosed
                     /\ cb'.consecutiveFailures = 0
                     /\ cb'.consecutiveSuccesses = 0
                     /\ cb'.totalRequests = 0
                     /\ cb'.totalFailures = 0
       /\ (CBAllowRequest /\ hLastOp = "Reset") => (hRet' /\ cb' = cb)]_vars

\* Reset has just been called on an open breaker whose timeout had not
\* elapsed: it is closed, its counters are zero
C22_Witness ==
    /\ hLastOp = "Reset"
    /\ hPrevState = CircuitOpen
    /\ cb.state = CircuitClosed
    /\ cb.totalRequests = 0
    /\ cb.consecutiveFailures = 0
    /\ Since(cb.lastFailure, now) < cb.config.Timeout
    /\ cb.lastStateChange = now

(***************************************************************************)
(* SpecCA: a CacheManager over a key-value store.  The store answers a     *)
(* round trip or fails it.                                                 *)
(***************************************************************************)
\* the breaker of a behaviour that never calls it
cbIdle ==
    /\ cb = NewCircuitBreaker(DefaultCircuitBreakerConfig, 0)
    /\ hLastOp = "NewCircuitBreaker"
    /\ hRet = TRUE
    /\ hPrevState = CircuitClosed
    /\ hFailStreak = 0
    /\ hRecords = 0
    /\ hFailures = 0
    /\ hProbeSuccesses = 0
    /\ hAdmitted = 0
    /\ hLastFailAt = ZeroTime

\* the store cannot be reached
ErrStoreUnavailable == MkError("net.OpError", 0, "", {"connection refused"})

\* the error of a store round trip: nil, or the store's own
StoreFaults == {NilError, ErrStoreUnavailable}

\* the configs the CacheManager is built with
CacheConfigs ==
    { \* TestCacheManager_Expiration: a short TTL (here one tick), the rest zero
      CacheConfig(1, "test:cache", FALSE, <<>>, Nil, FALSE, FALSE),
      \* a TTL of two ticks, the rest as DefaultCacheConfig
      CacheConfig(2, DefaultKeyPrefix, TRUE, <<>>, Ptr(<<"user">>), TRUE, TRUE) }

Hello == ChatCompletionRequest("gpt-4o", <<Message("user", "Hello", Nil, Nil, <<>>)>>)

\* the requests the CacheManager is called with: two that differ in temperature
\* only, one that differs in model and content
CacheRequests ==
    { Hello,
      [Hello EXCEPT !.Temperature = Ptr(7)],
      ChatCompletionRequest("phi", <<Message("user", "Hi", Nil, Nil, <<>>)>>) }

\* the responses it is given to store
CacheResponses == { ChatCompletionResponse(101), ChatCompletionResponse(102) }

\* what the store holds under key (<<>>: nothing, or the empty string)
Held(store, key) == IF key \in DOMAIN store THEN store[key] ELSE Nil

\* the history of writes once key has been written with w
Written(writers, key, w) ==
    [k \in DOMAIN writers \cup {key} |-> IF k = key THEN w ELSE writers[k]]

InitCA ==
    /\ now = 0
    /\ cbIdle
    /\ fpIdle
    /\ reqIdle
    /\ stIdle
    /\ ccIdle
    /\ clIdle
    /\ pfIdle
    /\ \E config \in CacheConfigs : cacheConfig = NewCacheManager(config)
    /\ kvs = NoStore
    /\ hCache = NoCacheCall
    /\ invIdle
    /\ lvIdle

\* m.Get(ctx, req)
CacheGet ==
    /\ nops < MaxOps
    /\ \E req \in CacheRequests, fault \in StoreFaults :
          \E r \in {Get(cacheConfig, kvs, req, fault, now)},
             key \in {BuildCacheKey(cacheConfig, req)} :
              hCache' = [op |-> "Get", req |-> Ptr(req), resp |-> Nil, fault |-> fault,
                         held |-> Held(kvs, key),
                         entry |-> r.entry, err |-> r.err, at |-> now]
    /\ nops' = nops + 1
    /\ UNCHANGED <<now, cbVars, fpVars, reqVars, ctxVars, stVars, ccVars, cacheConfig, kvs,
                   client, hClient, providerCalls, hWriter, pfVars, invVars, lvVars>>

\* m.Set(ctx, req, resp)
CacheSet ==
    /\ nops < MaxOps
    /\ \E req \in CacheRequests, response \in CacheResponses, fault \in StoreFaults :
          \E r \in {Set(cacheConfig, kvs, req, response, fault, now)},
             key \in {BuildCacheKey(cacheConfig, req)} :
              /\ kvs' = r.kvs
              /\ hCache' = [op |-> "Set", req |-> Ptr(req), resp |-> Ptr(response),
                            fault |-> fault,
                            held |-> Held(kvs, key),
                            entry |-> Nil, err |-> r.err, at |-> now]
              /\ hWriter' = IF r.err.type = "nil"
                            THEN Written(hWriter, key,
                                         Ptr([req |-> req, resp |-> response, at |-> now]))
                            ELSE hWriter
    /\ nops' = nops + 1
    /\ UNCHANGED <<now, cbVars, fpVars, reqVars, ctxVars, stVars, ccVars, cacheConfig,
                   client, hClient, providerCalls, pfVars, invVars, lvVars>>

\* m.Delete(ctx, req)
CacheDelete ==
    /\ nops < MaxOps
    /\ \E req \in CacheRequests, fault \in StoreFaults :
          \E r \in {Delete(cacheConfig, kvs, req, fault)},
             key \in {BuildCacheKey(cacheConfig, req)} :
              /\ kvs' = r.kvs
              /\ hCache' = [op |-> "Delete", req |-> Ptr(req), resp |-> Nil,
                            fault |-> fault,
                            held |-> Held(kvs, key),
                            entry |-> Nil, err |-> r.err, at |-> now]
              /\ hWriter' = IF r.err.type = "nil"
                            THEN Written(hWriter, key, Nil)
                            ELSE hWriter
    /\ nops' = nops + 1
    /\ UNCHANGED <<now, cbVars, fpVars, reqVars, ctxVars, stVars, ccVars, cacheConfig,
                   client, hClient, providerCalls, pfVars, invVars, lvVars>>

NextCA ==
    \/ Tick
    \/ CacheGet
    \/ CacheSet
    \/ CacheDelete

SpecCA == InitCA /\ [][NextCA]_vars

(***************************************************************************)
(* Properties of the CacheManager (checked under SpecCA)                   *)
(***************************************************************************)
\* C23: Get never returns an error.  It returns no entry when the store holds
\* nothing under the key, when the store round trip fails, and when the clock is
\* past the ExpiresAt of the entry the store still holds; in every other case it
\* returns the entry the store holds.
C23_GetAbsentOrStored ==
    hCache.op = "Get" =>
        /\ hCache.err = NilError
        /\ hCache.entry =
              IF \/ hCache.fault # NilError
                 \/ hCache.held = Nil
                 \/ hCache.at > hCache.held[1].ExpiresAt
              THEN Nil
              ELSE hCache.held

\* a Get finds the store holding an entry that has expired, and reports none
C23_Witness ==
    /\ hCache.op = "Get"
    /\ hCache.fault = NilError
    /\ hCache.held # Nil
    /\ hCache.at > hCache.held[1].ExpiresAt
    /\ hCache.entry = Nil
    /\ Held(kvs, BuildCacheKey(cacheConfig, hCache.req[1])) = hCache.held

\* C27: when the last write under a key was a Set(req, resp) that succeeded, a Get
\* the store answers, for any request with that key and made no later than TTL
\* after the Set, returns an entry whose Response is resp, whose ExpiresAt is its
\* CachedAt plus TTL, whose Model is req's model and whose RequestHash is the
\* hash part of the key.
C27_SetThenGetWithinTTL ==
    (hCache.op = "Get" /\ hCache.fault = NilError) =>
        LET key == BuildCacheKey(cacheConfig, hCache.req[1])
            w == Held(hWriter, key)
        IN  (w # Nil /\ hCache.at <= w[1].at + cacheConfig.TTL) =>
                /\ hCache.entry # Nil
                /\ hCache.entry[1].Response = w[1].resp
                /\ hCache.entry[1].ExpiresAt = hCache.entry[1].CachedAt + cacheConfig.TTL
                /\ hCache.entry[1].Model = w[1].req.Model
                /\ hCache.entry[1].RequestHash = key[2]

\* a Get made exactly TTL after the Set, for another request with the same key,
\* returns the entry
C27_Witness ==
    /\ hCache.op = "Get"
    /\ hCache.fault = NilError
    /\ LET w == Held(hWriter, BuildCacheKey(cacheConfig, hCache.req[1]))
       IN  /\ w # Nil
           /\ w[1].req # hCache.req[1]
           /\ hCache.at = w[1].at + cacheConfig.TTL
           /\ hCache.entry # Nil
           /\ hCache.entry[1].Response = w[1].resp

(***************************************************************************)
(* SpecCL: a ChatClient serving CreateChatCompletion requests, one at a    *)
(* time, with token validation and a response cache in front of its        *)
(* provider.  The provider gives each response it returns a new ID.        *)
(***************************************************************************)
\* ClientConfig.CacheConfig: nil, or the config of docs/features/caching.md with
\* a TTL of one tick
ClientCacheConfigs ==
    { Nil, Ptr(CacheConfig(1, "myapp:llm-cache", FALSE, <<>>, Nil, FALSE, FALSE)) }

\* a model with a context window of ten tokens
TinyWindows == [m \in {"tiny-model"} |-> 10]

\* ClientConfig.ValidateTokens and ClientConfig.TokenEstimator
Validators ==
    { <<FALSE, Nil>>,
      <<TRUE, Nil>>,
      <<TRUE, Ptr(NewTokenEstimator(TokenEstimatorConfig(0, TinyWindows, 0)))>>,
      <<TRUE, Ptr(FailingEstimator)>> }

TinyHello ==
    ChatCompletionRequest("tiny-model", <<Message("user", "Hello", Nil, Nil, <<>>)>>)

\* the requests the client is given: an estimate of 9 tokens for Hello and
\* TinyHello, of 16 for TinyHello with a tool call in its message
ClientRequests ==
    { Hello,
      [Hello EXCEPT !.User = Ptr("alice")],
      [Hello EXCEPT !.Stream = Ptr(TRUE)],
      TinyHello,
      [TinyHello EXCEPT !.Messages =
          <<Message("user", "Hello", Nil, Nil,
                    <<ToolCall("call_1", "function", "get_weather", "{}")>>)>>] }

\* what c.provider.CreateChatCompletion returns as its error
ClientProviderOutcomes == { NilError, NewAPIError(500) }

\* the error of the lookup's round trip: nil, the store's own, or the ctx's when
\* the caller cancels the request while the lookup is out
LookupFaults == StoreFaults \cup {ContextCanceled}

\* NewClient: the client and the config of its CacheManager
InitCL ==
    /\ now = 0
    /\ cbIdle
    /\ fpIdle
    /\ reqIdle
    /\ stIdle
    /\ ccIdle
    /\ pfIdle
    /\ \E cache \in BOOLEAN, config \in ClientCacheConfigs, v \in Validators :
          /\ client = ChatClient(cache, v[1], v[2])
          /\ cacheConfig = IF cache /\ config # Nil THEN NewCacheManager(config[1])
                           ELSE NewCacheManager(DefaultCacheConfig)
          /\ ~cache => config = Nil
    /\ kvs = NoStore
    /\ hCache = NoCacheCall
    /\ hClient = NoClientCall
    /\ providerCalls = 0
    /\ nops = 0
    /\ hWriter = NoStore
    /\ invIdle
    /\ lvIdle

\* c.CreateChatCompletion(ctx, req).  A ctx canceled during the lookup is still
\* canceled when the provider is called.
ClientRequest ==
    /\ nops < MaxClientCalls
    /\ \E req \in ClientRequests, getFault \in LookupFaults, setFault \in StoreFaults,
          out \in ClientProviderOutcomes \cup {ContextCanceled} :
          \E r \in {ClientCreateChatCompletion(client, cacheConfig, kvs, req, getFault,
                                               providerCalls + 1, out, setFault, now)},
             key \in {BuildCacheKey(cacheConfig, req)} :
              \* a call that is not made has no outcome
              /\ r.lookups = 0 => getFault = NilError
              /\ r.invoked = 0 => out = NilError
              /\ r.stored = 0 => setFault = NilError
              /\ r.invoked = 1 => (out = ContextCanceled <=> getFault = ContextCanceled)
              /\ kvs' = r.kvs
              /\ providerCalls' = providerCalls + r.invoked
              /\ hClient' = [req |-> Ptr(req),
                             fault |-> IF r.lookups = 1 THEN getFault ELSE NilError,
                             held |-> Held(kvs, key),
                             writer |-> Held(hWriter, key),
                             resp |-> r.resp, err |-> r.err, lookups |-> r.lookups,
                             invoked |-> r.invoked, stored |-> r.stored, at |-> now]
              /\ hWriter' = IF r.stored = 1 /\ setFault.type = "nil"
                            THEN Written(hWriter, key,
                                         Ptr([req |-> req, resp |-> r.resp[1], at |-> now]))
                            ELSE hWriter
    /\ nops' = nops + 1
    /\ UNCHANGED <<now, cbVars, fpVars, reqVars, ctxVars, stVars, ccVars, cacheConfig,
                   hCache, client, pfVars, invVars, lvVars>>

NextCL ==
    \/ Tick
    \/ ClientRequest

SpecCL == InitCL /\ [][NextCL]_vars

(***************************************************************************)
(* Properties of the ChatClient (checked under SpecCL)                     *)
(***************************************************************************)
\* C24: when the caller's ctx is canceled during the store round trip of the
\* cache lookup, the request ends there with the cancellation: the client does
\* not go on to its provider as it does for an absent entry.
C24_CanceledLookupEndsRequest ==
    (hClient.lookups = 1 /\ hClient.fault = ContextCanceled) =>
        /\ hClient.invoked = 0
        /\ hClient.resp = Nil
        /\ hClient.err = ContextCanceled

\* C28: a request identical to the one whose response the store holds under its
\* key, made while that entry has not expired and answered by the store, is
\* served from the cache: the provider is not called, and the response is the
\* stored one with cache_hit set and cached_at the time the entry was written.
C28_SecondRequestServedFromCache ==
    (/\ hClient.writer # Nil
     /\ hClient.writer[1].req = hClient.req[1]
     /\ hClient.held # Nil
     /\ hClient.at <= hClient.held[1].ExpiresAt
     /\ hClient.fault = NilError) =>
        /\ hClient.invoked = 0
        /\ hClient.stored = 0
        /\ hClient.err = NilError
        /\ hClient.resp =
              Ptr([hClient.writer[1].resp EXCEPT
                      !.cache_hit = Ptr(TRUE),
                      !.cached_at = Ptr(hClient.writer[1].at)])

\* the second of two identical requests, made one tick after the first, comes
\* back from the cache with the first's response
C28_Witness ==
    /\ hClient.writer # Nil
    /\ hClient.writer[1].req = hClient.req[1]
    /\ hClient.at = hClient.writer[1].at + 1
    /\ hClient.at <= hClient.held[1].ExpiresAt
    /\ hClient.invoked = 0
    /\ providerCalls = 1
    /\ hClient.resp # Nil
    /\ hClient.resp[1].ID = 1
    /\ hClient.resp[1].cache_hit = Ptr(TRUE)
    /\ hClient.resp[1].cached_at = Ptr(hClient.writer[1].at)

\* C29: with validateTokens set and an estimator configured, a request whose
\* estimated prompt tokens exceed the context window of its model is rejected
\* with a TokenLimitError carrying the estimate, the window, the window minus
\* the estimate and the model, and neither the cache nor the provider is called.
C29_TokenLimitBeforeCacheAndProvider ==
    (client.validateTokens /\ client.tokenEstimator # Nil /\ hClient.req # Nil) =>
        LET req == hClient.req[1]
            est == EstimateTokens(client.tokenEstimator[1], req.Model, req.Messages)
            window == GetContextWindow(client.tokenEstimator[1], req.Model)
        IN  (est.err = NilError /\ est.tokens > window) =>
                /\ hClient.resp = Nil
                /\ hClient.err.type = "TokenLimitError"
                /\ hClient.err.EstimatedTokens = est.tokens
                /\ hClient.err.ContextWindow = window
                /\ hClient.err.AvailableTokens = window - est.tokens
                /\ hClient.err.Model = req.Model
                /\ hClient.lookups = 0
                /\ hClient.invoked = 0
                /\ hClient.stored = 0

\* a request is rejected for its 16 tokens against a window of 10 while the
\* store holds an unexpired entry under its key
C29_Witness ==
    /\ client.validateTokens
    /\ client.cache
    /\ hClient.req # Nil
    /\ hClient.err.type = "TokenLimitError"
    /\ hClient.err.EstimatedTokens = 16
    /\ hClient.err.AvailableTokens = -6
    /\ hClient.held # Nil
    /\ hClient.at <= hClient.held[1].ExpiresAt
    /\ hClient.lookups = 0
    /\ providerCalls = 1

(***************************************************************************)
(* SpecKEY: BuildCacheKey applied to requests, the last two kept           *)
(***************************************************************************)
\* the configs the CacheManager is built with: temperature and seed in the key or
\* not, the exclusion list left nil or naming the user and max_tokens
KeyConfigs ==
    { CacheConfig(0, "", FALSE, <<>>, exclude, temperature, seed) :
        exclude \in {Nil, Ptr(<<"user", "max_tokens">>)},
        temperature \in BOOLEAN, seed \in BOOLEAN }

UserHello == Message("user", "Hello", Nil, Nil, <<>>)
AssistantHi == Message("assistant", "Hi", Nil, Nil, <<>>)

\* the requests: Hello, and Hello with one part changed
KeyRequests ==
    { Hello,
      [Hello EXCEPT !.Model = "phi"],
      [Hello EXCEPT !.Messages = <<>>],
      [Hello EXCEPT !.Messages = <<[UserHello EXCEPT !.Content = "Hi"]>>],
      [Hello EXCEPT !.Messages = <<[UserHello EXCEPT !.Role = "system"]>>],
      [Hello EXCEPT !.Messages = <<[UserHello EXCEPT !.Name = Ptr("bob")]>>],
      [Hello EXCEPT !.Messages = <<[UserHello EXCEPT !.ToolCallID = Ptr("call_1")]>>],
      [Hello EXCEPT !.Messages =
          <<[UserHello EXCEPT !.ToolCalls =
                <<ToolCall("call_1", "function", "get_weather", "{}")>>]>>],
      [Hello EXCEPT !.Messages = <<UserHello, AssistantHi>>],
      [Hello EXCEPT !.Messages = <<AssistantHi, UserHello>>],
      [Hello EXCEPT !.MaxTokens = Ptr(100)],
      [Hello EXCEPT !.MaxTokens = Ptr(200)],
      [Hello EXCEPT !.Temperature = Ptr(0)],
      [Hello EXCEPT !.Temperature = Ptr(7)],
      [Hello EXCEPT !.Temperature = Ptr(7), !.User = Ptr("alice")],
      [Hello EXCEPT !.TopP = Ptr(9)],
      [Hello EXCEPT !.TopK = Ptr(40)],
      [Hello EXCEPT !.TopK = Ptr(100)],
      [Hello EXCEPT !.Seed = Ptr(42)],
      [Hello EXCEPT !.Seed = Ptr(7)],
      [Hello EXCEPT !.Stop = <<"END">>],
      [Hello EXCEPT !.Stop = <<"END", "STOP">>],
      [Hello EXCEPT !.User = Ptr("alice")],
      [Hello EXCEPT !.User = Ptr("bob")],
      [Hello EXCEPT !.Stream = Ptr(TRUE)] }

InitKEY ==
    /\ now = 0
    /\ cbIdle
    /\ fpIdle
    /\ reqIdle
    /\ stIdle
    /\ ccIdle
    /\ clIdle
    /\ \E config \in KeyConfigs : cacheConfig = NewCacheManager(config)
    /\ kvs = NoStore
    /\ hCache = NoCacheCall
    /\ pfIdle
    /\ invIdle
    /\ lvIdle

\* m.BuildCacheKey(req)
CacheBuildKey ==
    /\ \E req \in KeyRequests :
          \E key \in {BuildCacheKey(cacheConfig, req)} :
              IF Len(hKeys) < 2
              THEN /\ hKeyReqs' = Append(hKeyReqs, req)
                   /\ hKeys' = Append(hKeys, key)
              ELSE /\ hKeyReqs' = <<hKeyReqs[2], req>>
                   /\ hKeys' = <<hKeys[2], key>>
    /\ UNCHANGED <<now, cbVars, fpVars, reqVars, ctxVars, stVars, ccVars, caVars, clVars,
                   invVars, lvVars,
                   hShouldReq, hShould, hErr, hCategory>>

\* the requests ShouldCache is asked about: Hello, Hello streamed, Hello to
\* another model
ShouldRequests ==
    { Hello, [Hello EXCEPT !.Stream = Ptr(TRUE)], [Hello EXCEPT !.Model = "phi"] }

\* m.ShouldCache(req)
CacheShouldCache ==
    /\ \E req \in ShouldRequests :
          /\ hShouldReq' = Ptr(req)
          /\ hShould' = ShouldCache(cacheConfig, req)
    /\ UNCHANGED <<now, cbVars, fpVars, reqVars, ctxVars, stVars, ccVars, caVars, clVars,
                   invVars, lvVars,
                   hKeyReqs, hKeys, hErr, hCategory>>

NextKEY ==
    \/ CacheBuildKey
    \/ CacheShouldCache

SpecKEY == InitKEY /\ [][NextKEY]_vars

\* requests a and b agree on the model, on the messages in their order (role,
\* content, name, tool-call id) and on every parameter the config puts in the key
SameKeyInputs(config, a, b) ==
    /\ a.Model = b.Model
    /\ Len(a.Messages) = Len(b.Messages)
    /\ \A i \in 1..Len(a.Messages) :
          /\ a.Messages[i].Role = b.Messages[i].Role
          /\ a.Messages[i].Content = b.Messages[i].Content
          /\ a.Messages[i].Name = b.Messages[i].Name
          /\ a.Messages[i].ToolCallID = b.Messages[i].ToolCallID
    /\ a.MaxTokens = b.MaxTokens
    /\ a.TopP = b.TopP
    /\ a.TopK = b.TopK
    /\ a.Stop = b.Stop
    /\ config.IncludeTemperature => a.Temperature = b.Temperature
    /\ config.IncludeSeed => a.Seed = b.Seed

\* the field of a request that the parameter named p is
ParameterField(p) ==
    CASE p = "user" -> "User"
      [] p = "max_tokens" -> "MaxTokens"
      [] p = "temperature" -> "Temperature"
      [] p = "top_p" -> "TopP"
      [] p = "top_k" -> "TopK"
      [] p = "seed" -> "Seed"
      [] p = "stop" -> "Stop"

\* requests a and b differ, and in nothing but the parameter named p
DiffersOnlyIn(a, b, p) ==
    /\ a # b
    /\ [a EXCEPT ![ParameterField(p)] = b[ParameterField(p)]] = b

\* C25: under one configuration, two requests get the same key exactly when they
\* agree on the model, on the ordered messages and on every included parameter.
C25_SameKeyIffSameInputs ==
    Len(hKeys) = 2 =>
        (hKeys[1] = hKeys[2] <=> SameKeyInputs(cacheConfig, hKeyReqs[1], hKeyReqs[2]))

\* two requests that differ in the temperature the config leaves out, and in
\* the user, share a key
C25_Witness ==
    /\ Len(hKeys) = 2
    /\ ~cacheConfig.IncludeTemperature
    /\ hKeyReqs[1].Temperature # hKeyReqs[2].Temperature
    /\ hKeyReqs[1].User # hKeyReqs[2].User
    /\ hKeys[1] = hKeys[2]

\* C26: two requests that differ only in a parameter the config names in
\* ExcludeParameters get the same key.
C26_ExcludedParameterLeavesKey ==
    Len(hKeys) = 2 =>
        \A i \in 1..Len(cacheConfig.ExcludeParameters[1]) :
            DiffersOnlyIn(hKeyReqs[1], hKeyReqs[2], cacheConfig.ExcludeParameters[1][i])
                => hKeys[1] = hKeys[2]

(***************************************************************************)
(* SpecERR: ClassifyError applied to errors                                *)
(***************************************************************************)
\* the errors classified: with a status code or without, wrapping a sentinel or
\* not, their text matching a network pattern, a message pattern or none
ClassifiedErrors ==
    { MkError(type, status, is, text) :
        type \in {"APIError"},
        status \in {0, 200, 302, 400, 401, 403, 404, 408, 418, 422, 429, 499,
                    500, 503, 599, 600},
        is \in {"", "ErrRateLimitExceeded", "ErrInvalidRequest"},
        text \in {{}, {"connection refused"}, {"eof"}, {"rate limit"},
                  {"unauthorized"}} }
    \cup
    { MkError(type, 0, is, text) :
        type \in {"errorString", "net.OpError"},
        is \in {"", "ErrRateLimitExceeded", "ErrInvalidRequest"},
        text \in {{}, {"connection refused"}, {"eof"}, {"rate limit"},
                  {"unauthorized"}} }

InitERR ==
    /\ now = 0
    /\ cbIdle
    /\ fpIdle
    /\ reqIdle
    /\ stIdle
    /\ ccIdle
    /\ outerIdle

\* ClassifyError(err)
Classify ==
    /\ \E err \in ClassifiedErrors :
          /\ hErr' = err
          /\ hCategory' = ClassifyError(err)
    /\ UNCHANGED <<now, cbVars, fpVars, reqVars, ctxVars, stVars, ccVars, caVars, clVars,
                   invVars, lvVars,
                   hKeyReqs, hKeys, hShouldReq, hShould>>

NextERR == Classify

SpecERR == InitERR /\ [][NextERR]_vars

\* C30: the category of an error that carries a status code is a function of the
\* code alone, whatever sentinel the error wraps and whatever patterns its text
\* matches: Retryable for 429, 408 and 500..599, NonRetryable for the rest of
\* 400..499, and for any other code what the bare error of that code gets.
C30_StatusCodeDecides ==
    hErr.type = "APIError" =>
        /\ hCategory = ClassifyError(NewAPIError(hErr.status))
        /\ (hErr.status \in {429, 408} \/ hErr.status \in 500..599)
              => hCategory = ErrorCategoryRetryable
        /\ (hErr.status \in 400..499 /\ hErr.status \notin {429, 408})
              => hCategory = ErrorCategoryNonRetryable

\* a 401 whose text says "connection refused" is NonRetryable
C30_Witness ==
    /\ hErr.type = "APIError"
    /\ hErr.status = 401
    /\ "connection refused" \in hErr.text
    /\ hErr.text \cap networkPatterns # {}
    /\ hCategory = ErrorCategoryNonRetryable

(***************************************************************************)
(* The breaker's counters and transitions (checked under SpecCB)           *)
(***************************************************************************)
\* C31: in every reachable state in which the breaker is Closed after a
\* RecordSuccess or a RecordFailure, it is not the case that total requests >=
\* MinimumRequests and total failures / total requests >= FailureRateThreshold.
C31_ClosedBelowFailureRate ==
    (hLastOp \in {"RecordSuccess", "RecordFailure"} /\ cb.state = CircuitClosed)
        => ~rateReached(cb)

\* C32: a transition to Open or to HalfOpen leaves the total-request and
\* total-failure counters as they were (a RecordFailure that opens the breaker
\* keeps the totals it has just counted, an AllowRequest that half-opens it
\* keeps them unchanged); a total goes down only in a step that ends with the
\* breaker Closed and is a Reset or a transition to Closed; and while the breaker
\* is Closed its totals are exactly the records made since it was built, reset
\* or last closed.
C32_TotalsZeroedOnlyOnClose ==
    [][ /\ (CBAllowRequest /\ cb'.state # cb.state)
            => /\ cb'.totalRequests = cb.totalRequests
               /\ cb'.totalFailures = cb.totalFailures
        /\ (CBRecordFailure /\ cb'.state # cb.state)
            => /\ cb'.state = CircuitOpen
               /\ cb'.totalRequests = cb.totalRequests + 1
               /\ cb'.totalFailures = cb.totalFailures + 1
        /\ (\/ cb'.totalRequests < cb.totalRequests
            \/ cb'.totalFailures < cb.totalFailures)
            => /\ cb'.state = CircuitClosed
               /\ cb.state # CircuitClosed \/ hLastOp' = "Reset"
        /\ cb'.state = CircuitClosed
            => /\ cb'.totalRequests = hRecords'
               /\ cb'.totalFailures = hFailures' ]_vars

\* a breaker that opened, half-opened and was closed by its SuccessThreshold-th
\* success has since recorded one failure: its totals count that record alone
C32_Witness ==
    /\ hLastOp = "RecordFailure"
    /\ hPrevState = CircuitClosed
    /\ cb.state = CircuitClosed
    /\ hProbeSuccesses = cb.config.SuccessThreshold
    /\ cb.lastStateChange > 0
    /\ cb.totalRequests = 1
    /\ cb.totalFailures = 1

\* C33: in HalfOpen state AllowRequest admits only a limited number of test
\* requests: of MaxAdmitted AllowRequest calls made while the breaker stays
\* HalfOpen, with no success or failure recorded in between, at least one
\* returns false (the calls are atomic, C20, so concurrent callers make them in
\* some order).
C33_HalfOpenAdmitsLimited ==
    cb.state = CircuitHalfOpen => hAdmitted < MaxAdmitted

\* C36: the breaker's state changes only along Closed to Open (by
\* RecordFailure), Open to HalfOpen (by AllowRequest, once Timeout has elapsed
\* since the last failure), HalfOpen to Closed (by RecordSuccess), HalfOpen to
\* Open (by RecordFailure) and any state to Closed (by Reset).  So RecordSuccess
\* and RecordFailure leave an Open breaker Open, Closed never goes directly to
\* HalfOpen, and Open goes to Closed only by Reset.
C36_TransitionsFollowTheDiagram ==
    [][ cb'.state # cb.state =>
          \/ /\ cb.state = CircuitClosed /\ cb'.state = CircuitOpen
             /\ hLastOp' = "RecordFailure"
          \/ /\ cb.state = CircuitOpen /\ cb'.state = CircuitHalfOpen
             /\ hLastOp' = "AllowRequest"
             /\ Since(cb.lastFailure, now) >= cb.config.Timeout
          \/ /\ cb.state = CircuitHalfOpen /\ cb'.state = CircuitClosed
             /\ hLastOp' = "RecordSuccess"
          \/ /\ cb.state = CircuitHalfOpen /\ cb'.state = CircuitOpen
             /\ hLastOp' = "RecordFailure"
          \/ /\ cb'.state = CircuitClosed
             /\ hLastOp' = "Reset" ]_vars

\* a RecordSuccess has just left an Open breaker Open, although it is the
\* SuccessThreshold-th success in a row
C36_Witness ==
    /\ hLastOp = "RecordSuccess"
    /\ hPrevState = CircuitOpen
    /\ cb.state = CircuitOpen
    /\ cb.consecutiveSuccesses >= cb.config.SuccessThreshold

\* C37: in every reachable state of a breaker with FailureThreshold >= 1 and
\* SuccessThreshold >= 1: a Closed breaker's consecutive-failure count is below
\* FailureThreshold, a HalfOpen breaker's consecutive-success count is below
\* SuccessThreshold, total failures do not exceed total requests, and the two
\* consecutive counts are not both non-zero.
C37_CounterInvariants ==
    (cb.config.FailureThreshold >= 1 /\ cb.config.SuccessThreshold >= 1) =>
        /\ cb.state = CircuitClosed
              => cb.consecutiveFailures < cb.config.FailureThreshold
        /\ cb.state = CircuitHalfOpen
              => cb.consecutiveSuccesses < cb.config.SuccessThreshold
        /\ cb.totalFailures <= cb.totalRequests
        /\ ~(cb.consecutiveFailures > 0 /\ cb.consecutiveSuccesses > 0)

\* a HalfOpen breaker that has just recorded a success and is one success short
\* of closing; the failures that opened it are still in its totals
C37_Witness ==
    /\ cb.state = CircuitHalfOpen
    /\ hLastOp = "RecordSuccess"
    /\ cb.config.SuccessThreshold >= 2
    /\ cb.consecutiveSuccesses = cb.config.SuccessThreshold - 1
    /\ cb.consecutiveFailures = 0
    /\ cb.totalFailures >= cb.config.FailureThreshold
    /\ cb.totalRequests > cb.totalFailures + 1

\* C35: a CacheManager built from a config that leaves SkipStreaming,
\* IncludeTemperature and IncludeSeed unset (a Go bool that is not set is false)
\* behaves as their documented default, true, says: ShouldCache is false for a
\* streaming request, and two requests that differ only in temperature, or only
\* in seed, get different keys.
C35_UnsetFlagsTakeDefaults ==
    (/\ ~cacheConfig.SkipStreaming
     /\ ~cacheConfig.IncludeTemperature
     /\ ~cacheConfig.IncludeSeed) =>
        /\ (hShouldReq # Nil /\ hShouldReq[1].Stream = Ptr(TRUE)) => ~hShould
        /\ (/\ Len(hKeys) = 2
            /\ \/ DiffersOnlyIn(hKeyReqs[1], hKeyReqs[2], "temperature")
               \/ DiffersOnlyIn(hKeyReqs[1], hKeyReqs[2], "seed"))
              => hKeys[1] # hKeys[2]

(***************************************************************************)
(* SpecFX: the FallbackProvider built from what SpecFB leaves out: a       *)
(* breaker config whose Timeout is left zero, and a fallback whose Name()   *)
(* is the primary's (two providers of one kind, say two OpenAI endpoints)   *)
(***************************************************************************)
\* the fallback lists: a fallback of its own name, a fallback named as the primary
FXLists == { <<"fallback1">>, <<Primary>> }

\* the breaker configs: the test's config with Timeout left out, and with it
FXConfigs ==
    { CircuitBreakerConfig(2, 1, 0, Rate(0, 1), 10),
      CircuitBreakerConfig(2, 1, 2, Rate(0, 1), 10) }

InitFX ==
    /\ now = 0
    /\ cbIdle
    /\ \E fbs \in FXLists, config \in FXConfigs :
          LET fp == NewFallbackProvider(fbs, TRUE, config, 0)
          IN  /\ fallbacks = fp.fallbacks
              /\ cbEnabled = fp.cbEnabled
              /\ cbConfig = fp.cbConfig
              /\ circuitBreakers = fp.circuitBreakers
    /\ reqIdle
    /\ stIdle
    /\ ccIdle
    /\ outerIdle

NextFX ==
    \/ Tick
    \/ StartRequest
    \/ Gate
    \/ Call

SpecFX == InitFX /\ [][NextFX]_vars

\* C34: the CircuitOpenError attached to a skipped attempt carries the remaining
\* wait: its RetryAfter is the Timeout the candidate's breaker uses minus the
\* time elapsed since the breaker's last recorded failure, and is greater than
\* zero.
C34_RetryAfterIsRemainingWait ==
    [][ (Gate /\ Len(attempts') > Len(attempts)) =>
            LET a == attempts'[Len(attempts')]
                b == circuitBreakers'[a.Provider]
            IN  /\ a.Skipped
                /\ a.Error.type = "CircuitOpenError"
                /\ a.Error.LastFailure = b.lastFailure
                /\ a.Error.RetryAfter
                      = b.config.Timeout - Since(b.lastFailure, now)
                /\ a.Error.RetryAfter > 0 ]_vars

\* C40: every candidate has its own breaker: a provider call that records a
\* failure for one candidate leaves the breaker consulted for every other
\* candidate as it was.
C40_OneBreakerPerCandidate ==
    [][ (/\ cbEnabled
         /\ pc = "call"
         /\ circuitBreakers'[candidates[idx]].totalFailures
               > circuitBreakers[candidates[idx]].totalFailures) =>
            \A j \in 1..Len(candidates) :
                j # idx => circuitBreakers'[candidates[j]]
                              = circuitBreakers[candidates[j]] ]_vars

(***************************************************************************)
(* Records per provider invocation (checked under SpecST)                  *)
(***************************************************************************)
\* C38: each invocation of a provider by the orchestrator leads to at most one
\* record on the breakers, one RecordSuccess or one RecordFailure, for a
\* completion call and for a streaming call together with every later Recv on
\* the stream it returned.
C38_OneRecordPerInvocation ==
    hInvRecords <= 1

(***************************************************************************)
(* SpecLV: recovery.  The providers fail as they like, for MaxRequests     *)
(* requests at most, until they recover; from then on every call succeeds, *)
(* requests keep arriving, up to MaxArrivals between two ticks of the      *)
(* clock, and time keeps advancing up to MaxTime.  The providers recover   *)
(* early enough for the clock to cover every breaker's Timeout.            *)
(***************************************************************************)
InitLV ==
    /\ now = 0
    /\ cbIdle
    /\ \E config \in FBConfigs :
          LET fp == NewFallbackProvider(<<"fallback1">>, TRUE, config, 0)
          IN  /\ fallbacks = fp.fallbacks
              /\ cbEnabled = fp.cbEnabled
              /\ cbConfig = fp.cbConfig
              /\ circuitBreakers = fp.circuitBreakers
    /\ reqIdle
    /\ stIdle
    /\ ccIdle
    /\ outerIdle

\* time passes; once the providers have recovered, MaxArrivals more requests
\* can arrive
LVTick ==
    /\ now < MaxTime
    /\ now' = now + 1
    /\ nreq' = IF healthy THEN 0 ELSE nreq
    /\ UNCHANGED <<cbVars, fpVars, pc, idx, start, attempts, callCount, retKind, resp,
                   retErr, retAttempts, ctxVars, stVars, ccVars, outerVars>>

\* the providers recover
Recover ==
    /\ ~healthy
    /\ \A p \in DOMAIN circuitBreakers :
          now + circuitBreakers[p].config.Timeout <= MaxTime
    /\ healthy' = TRUE
    /\ nreq' = 0
    /\ UNCHANGED <<now, cbVars, fpVars, pc, idx, start, attempts, callCount, retKind, resp,
                   retErr, retAttempts, ctxVars, stVars, ccVars, caVars, clVars, pfVars,
                   invVars>>

\* a request arrives
LVStart ==
    /\ healthy => nreq < MaxArrivals
    /\ StartRequest

NextLV ==
    \/ LVTick
    \/ Recover
    \/ LVStart
    \/ Gate
    \/ Call

\* time keeps advancing, requests keep arriving, a request that has begun goes on
SpecLV ==
    /\ InitLV
    /\ [][NextLV]_vars
    /\ WF_vars(LVTick)
    /\ WF_vars(LVStart)
    /\ WF_vars(Gate)
    /\ WF_vars(Call)

\* provider p's breaker is in state s
BreakerIs(p, s) ==
    /\ p \in DOMAIN circuitBreakers
    /\ circuitBreakers[p].state = s

\* the primary's breaker is Closed and a request that has returned has called
\* the primary
PrimaryServes ==
    /\ BreakerIs(Primary, CircuitClosed)
    /\ pc = "done" => callCount[1] = 1

====
